---- MODULE Spec2Model ----
(***************************************************************************)
(* A model of the quizzpp quiz application: the data store (quizzes,       *)
(* questions, responses with their column constraints and row policies),   *)
(* the quiz-taking page (TakeQuiz.tsx), the create and edit authoring      *)
(* pages (CreateQuiz.tsx, EditQuiz.tsx), the scoring function, the         *)
(* results page (QuizResults.tsx) and the dashboard (Dashboard.tsx).       *)
(*                                                                         *)
(* JavaScript arrays are 0-based; sequences here are 1-based, so the       *)
(* element the code calls a[i] is a[i + 1] below.  Indices that the code   *)
(* keeps in state (currentQuestion, order_index) keep their 0-based value. *)
(***************************************************************************)
EXTENDS Integers, Sequences, FiniteSets, TLC

VARIABLES
  \* ---- data store
  dbQuiz,            \* the quiz row the link names: [exists, is_active]
  dbQuestions,       \* the question rows of that quiz (a set of rows)
  dbResponses,       \* the response rows, in insertion order
  dbNextId,          \* next row id the store hands out
  dbRegisterColumn,  \* the responses table carries student_register_number NOT NULL
  ownerOps,          \* store requests issued so far by the quiz owner's pages
  ownerPc,           \* position inside the owner's save (EditQuiz handleSubmit)
  \* ---- TakeQuiz component state
  caller,            \* who opened the link: "anon" or "other" (signed in, not the owner)
  fetchPc,           \* position inside fetchQuiz
  quiz,              \* useState<Quiz | null>
  questions,         \* useState<Question[]>
  currentQuestion,
  answers,
  studentName,
  studentEmail,
  loading,
  submitting,
  submitted,
  score,
  showResults,
  inflight,          \* response inserts sent and not yet answered
  alertMsg,          \* the last alert() shown
  resultRow,         \* the row whose successful insert opened the results view
  \* ---- CreateQuiz / EditQuiz component state (one authoring page is open)
  page,              \* which page holds the draft: "create", "edit" or "none"
  aHeap,             \* the question objects of the draft, by reference
  aOpts,             \* the options arrays of the draft, by reference
  aQuestions,        \* useState questions: an array of object references
  aPending,          \* EditQuiz removeQuestion calls suspended at their await
  aSteps,            \* handler calls so far
  aLast,             \* the last handler that ran, with its arguments
  \* ---- CreateQuiz / EditQuiz handleSubmit
  title,             \* useState title
  savePc,            \* position inside handleSubmit: "idle", "quiz", "delete", "insert", "done"
  saveCaptured,      \* the questions array handleSubmit closed over
  saveLog,           \* the store requests the current handleSubmit has issued
  saves,             \* handleSubmit calls so far
  \* ---- pure functions applied to drawn inputs
  fnQuestions,
  fnAnswers,
  fnScore,
  stScores,          \* calculateStats: the scores of the loaded responses
  stQuestionCount,   \* calculateStats: questions.length
  stResult,          \* calculateStats: the object returned
  resResponses,      \* QuizResults: the response rows fetchData loaded
  csv,               \* exportToCSV: the header and the rows of the file
  \* ---- Dashboard component state and the owner's rows of quizzes
  dbQuizzes,         \* the owner's quiz rows, by id: [exists, is_active]
  quizzes,           \* useState<Quiz[]>: the list the dashboard renders
  dashLoading,       \* useState loading
  dashPending,       \* deleteQuiz / toggleQuizStatus calls suspended at their await
  dashIssued,        \* delete and toggle requests issued so far
  dashFailed         \* some request was answered with an error

storeVars == <<dbQuiz, dbQuestions, dbResponses, dbNextId, dbRegisterColumn, ownerOps,
              ownerPc>>
takeVars == <<caller, fetchPc, quiz, questions, currentQuestion, answers, studentName,
              studentEmail, loading, submitting, submitted, score, showResults,
              inflight, alertMsg, resultRow>>
saveVars == <<title, savePc, saveLog, saves>>
authVars == <<page, aHeap, aOpts, aQuestions, aPending, aSteps, aLast, saveCaptured,
              saveVars>>
scoreVars == <<fnQuestions, fnAnswers, fnScore>>
statVars == <<stScores, stQuestionCount, stResult, resResponses, csv>>
dashVars == <<dbQuizzes, quizzes, dashLoading, dashPending, dashIssued, dashFailed>>
fnVars == <<scoreVars, statVars, dashVars>>
vars == <<storeVars, takeVars, authVars, fnVars>>

(***************************************************************************)
(* Bounds of the model.                                                    *)
(***************************************************************************)
MaxQuestions == 2      \* questions of a stored quiz / of a draft
MaxDashRequests == 3   \* delete and toggle requests issued from one dashboard
MaxOwnerOps == 1       \* store requests of the owner during one taking session
MaxInflight == 1       \* response inserts in flight at the same time
MaxDraftQuestions == 2 \* questions of a draft being authored
MaxSteps == 3          \* authoring handler calls in one session
MaxPending == 2        \* removeQuestion calls suspended at the same time

(***************************************************************************)
(* Text.  String.prototype.trim() removes leading and trailing white       *)
(* space; the texts of the model are listed with their trimmed value.      *)
(***************************************************************************)
Trim(s) ==
  CASE s = " " -> ""
    [] s = " A" -> "A"
    [] s = "Ann " -> "Ann"
    [] s = " T" -> "T"
    [] OTHER -> s

\* !s for a string: the empty string is the only falsy string
Falsy(s) == s = ""

Null == "null"

SeqSet(s) == { s[i] : i \in DOMAIN s }

(***************************************************************************)
(* The data store.  One quiz, the one the shared link names.               *)
(***************************************************************************)
QuizId == "q1"

\* questions a stored quiz is made of: persisted rows carry trimmed, non-empty
\* options and a correct answer that is one of them
StoredOptions == <<"A", "B">>
StoredQuestionPool ==
  { [question_text |-> "Q", options |-> StoredOptions, correct_answer |-> c] :
      c \in SeqSet(StoredOptions) }

RECURSIVE SeqsUpTo(_, _)
\* all sequences over S of length 0..n
SeqsUpTo(S, n) ==
  IF n = 0 THEN { <<>> }
  ELSE LET shorter == SeqsUpTo(S, n - 1)
       IN  shorter \cup { Append(q, x) : q \in { t \in shorter : Len(t) = n - 1 }, x \in S }

StoredDrafts == SeqsUpTo(StoredQuestionPool, MaxQuestions)

\* the rows an insert of the draft d creates: order_index is the array position
\* (CreateQuiz.tsx 139-145, EditQuiz.tsx 200-206), ids come from the store
RowsOf(d, firstId) ==
  { [id |-> firstId + i - 1,
     question_text |-> d[i].question_text,
     options |-> d[i].options,
     correct_answer |-> d[i].correct_answer,
     order_index |-> i - 1] : i \in DOMAIN d }

RECURSIVE OrderByIndex(_)
\* .order('order_index'): the rows by ascending order_index
OrderByIndex(rows) ==
  IF rows = {} THEN <<>>
  ELSE LET first == CHOOSE r \in rows :
                      \A o \in rows : r.order_index < o.order_index
                                       \/ (r.order_index = o.order_index /\ r.id <= o.id)
       IN  <<first>> \o OrderByIndex(rows \ {first})

\* Row policies of quizzes: the owner reads their own quiz; anon reads active
\* quizzes; no policy lets another signed-in user read it.
CanReadQuiz(who) ==
  /\ dbQuiz.exists
  /\ \/ who = "owner"
     \/ who = "anon" /\ dbQuiz.is_active

\* Row policies of questions
VisibleQuestions(who) ==
  IF dbQuiz.exists /\ (who = "owner" \/ (who = "anon" /\ dbQuiz.is_active))
  THEN dbQuestions ELSE {}

\* Columns of responses declared NOT NULL without a default
RequiredResponseColumns ==
  {"quiz_id", "student_name", "student_email"}
    \cup (IF dbRegisterColumn THEN {"student_register_number"} ELSE {})

\* The declared columns of responses that are NOT NULL without a default
DeclaredResponseColumns ==
  {"quiz_id", "student_name", "student_email", "student_register_number"}

\* A response row passes the column constraints and the foreign key;
\* the insert policy is WITH CHECK (true) for anon and authenticated
ResponseAccepted(row) ==
  /\ RequiredResponseColumns \subseteq DOMAIN row
  /\ dbQuiz.exists
  /\ row.quiz_id = QuizId

StoreInit ==
  /\ dbQuiz \in { q \in [exists : BOOLEAN, is_active : BOOLEAN] :
                    q.is_active => q.exists }
  /\ \E d \in StoredDrafts : dbQuestions = (IF dbQuiz.exists THEN RowsOf(d, 1) ELSE {})
  /\ dbResponses = <<>>
  /\ dbNextId = Cardinality(dbQuestions) + 1
  /\ dbRegisterColumn \in BOOLEAN
  /\ ownerOps = 0
  /\ ownerPc = "idle"

StoreIdle ==
  /\ dbQuiz = [exists |-> FALSE, is_active |-> FALSE]
  /\ dbQuestions = {}
  /\ dbResponses = <<>>
  /\ dbNextId = 1
  /\ dbRegisterColumn = TRUE
  /\ ownerOps = 0
  /\ ownerPc = "idle"

(***************************************************************************)
(* Store requests of the quiz's owner, issued from the owner's pages while *)
(* a taker holds the link.  The taking page reads the question rows only   *)
(* inside fetchQuiz, so the owner's changes of question rows are taken     *)
(* while that read is still ahead (Reading).                               *)
(***************************************************************************)
Reading == fetchPc # "done"

\* EditQuiz handleSubmit: delete().eq('quiz_id', id)
OwnerSaveDelete ==
  /\ Reading
  /\ ownerOps < MaxOwnerOps
  /\ ownerPc = "idle"
  /\ dbQuiz.exists
  /\ dbQuestions' = {}
  /\ ownerPc' = "insert"
  /\ ownerOps' = ownerOps + 1
  /\ UNCHANGED <<dbQuiz, dbResponses, dbNextId, dbRegisterColumn>>

\* EditQuiz handleSubmit: insert(questionsToInsert) of a validated draft
OwnerSaveInsert(d) ==
  /\ ownerPc = "insert"
  /\ Len(d) >= 1
  /\ IF dbQuiz.exists
     THEN /\ dbQuestions' = dbQuestions \cup RowsOf(d, dbNextId)
          /\ dbNextId' = dbNextId + Len(d)
     ELSE UNCHANGED <<dbQuestions, dbNextId>>
  /\ ownerPc' = "idle"
  /\ UNCHANGED <<dbQuiz, dbResponses, dbRegisterColumn, ownerOps>>

\* EditQuiz removeQuestion: delete().eq('id', question.id) of a loaded question
OwnerRemoveQuestion(row) ==
  /\ Reading
  /\ ownerOps < MaxOwnerOps
  /\ ownerPc = "idle"
  /\ Cardinality(dbQuestions) > 1
  /\ row \in dbQuestions
  /\ dbQuestions' = dbQuestions \ {row}
  /\ ownerOps' = ownerOps + 1
  /\ UNCHANGED <<dbQuiz, dbResponses, dbNextId, dbRegisterColumn, ownerPc>>

\* Dashboard toggleQuizStatus: update({ is_active: !quiz.is_active })
OwnerToggleStatus ==
  /\ ownerOps < MaxOwnerOps
  /\ ownerPc = "idle"
  /\ dbQuiz.exists
  /\ dbQuiz' = [dbQuiz EXCEPT !.is_active = ~dbQuiz.is_active]
  /\ ownerOps' = ownerOps + 1
  /\ UNCHANGED <<dbQuestions, dbResponses, dbNextId, dbRegisterColumn, ownerPc>>

\* Dashboard deleteQuiz: delete().eq('id', quizId); questions and responses cascade
OwnerDeleteQuiz ==
  /\ ownerOps < MaxOwnerOps
  /\ ownerPc = "idle"
  /\ dbQuiz.exists
  /\ dbQuiz' = [exists |-> FALSE, is_active |-> FALSE]
  /\ dbQuestions' = {}
  /\ dbResponses' = <<>>
  /\ ownerOps' = ownerOps + 1
  /\ UNCHANGED <<dbNextId, dbRegisterColumn, ownerPc>>

OwnerStep ==
  /\ \/ OwnerSaveDelete
     \/ \E d \in StoredDrafts : OwnerSaveInsert(d)
     \/ \E row \in dbQuestions : OwnerRemoveQuestion(row)
     \/ OwnerToggleStatus
     \/ OwnerDeleteQuiz
  /\ UNCHANGED <<takeVars, authVars, fnVars>>

(***************************************************************************)
(* TakeQuiz.tsx: the quiz-taking page.                                     *)
(***************************************************************************)
StudentNames == {"", " ", "Ann "}
StudentEmails == {"", "a@x"}

\* what the component renders (TakeQuiz.tsx 126-138, 209)
\* a variant of the render guards that redirects on a missing quiz only
TakeViewWithoutEmptyCheck ==
  IF loading THEN "loading"
  ELSE IF quiz = Null THEN "redirect"
  ELSE IF showResults THEN "results"
  ELSE "taking"

TakeView ==
  IF loading THEN "loading"
  ELSE IF quiz = Null \/ Len(questions) = 0 THEN "redirect"
  ELSE IF showResults THEN "results"
  ELSE "taking"

TakeInit ==
  /\ caller \in {"anon", "other"}
  /\ fetchPc = "quiz"
  /\ quiz = Null
  /\ questions = <<>>
  /\ currentQuestion = 0
  /\ answers = <<>>
  /\ studentName = ""
  /\ studentEmail = ""
  /\ loading = TRUE
  /\ submitting = FALSE
  /\ submitted = FALSE
  /\ score = 0
  /\ showResults = FALSE
  /\ inflight = <<>>
  /\ alertMsg = ""
  /\ resultRow = Null

TakeIdle ==
  /\ caller = "anon"
  /\ fetchPc = "done"
  /\ quiz = Null
  /\ questions = <<>>
  /\ currentQuestion = 0
  /\ answers = <<>>
  /\ studentName = ""
  /\ studentEmail = ""
  /\ loading = FALSE
  /\ submitting = FALSE
  /\ submitted = FALSE
  /\ score = 0
  /\ showResults = FALSE
  /\ inflight = <<>>
  /\ alertMsg = ""
  /\ resultRow = Null

\* fetchQuiz, first await: the quiz row, .eq('is_active', true).single()
FetchQuizRow ==
  /\ fetchPc = "quiz"
  /\ IF CanReadQuiz(caller) /\ dbQuiz.is_active
     THEN /\ fetchPc' = "questions"
          /\ UNCHANGED loading
     ELSE \* quizError is thrown; catch logs; finally setLoading(false)
          /\ fetchPc' = "done"
          /\ loading' = FALSE
  /\ UNCHANGED <<caller, quiz, questions, currentQuestion, answers, studentName,
                 studentEmail, submitting, submitted, score, showResults, inflight,
                 alertMsg, resultRow>>
  /\ UNCHANGED <<storeVars, authVars, fnVars>>

\* fetchQuiz, second await: the question rows by order_index, then
\* setQuiz, setQuestions, setAnswers(new Array(n).fill('')), setLoading(false)
FetchQuestionRows ==
  /\ fetchPc = "questions"
  /\ LET questionsData == OrderByIndex(VisibleQuestions(caller))
     IN  /\ quiz' = QuizId
         /\ questions' = questionsData
         /\ answers' = [i \in 1..Len(questionsData) |-> ""]
  /\ fetchPc' = "done"
  /\ loading' = FALSE
  /\ UNCHANGED <<caller, currentQuestion, studentName, studentEmail, submitting,
                 submitted, score, showResults, inflight, alertMsg, resultRow>>
  /\ UNCHANGED <<storeVars, authVars, fnVars>>

\* either request of fetchQuiz fails (network, server): catch, finally
FetchFails ==
  /\ fetchPc \in {"quiz", "questions"}
  /\ fetchPc' = "done"
  /\ loading' = FALSE
  /\ UNCHANGED <<caller, quiz, questions, currentQuestion, answers, studentName,
                 studentEmail, submitting, submitted, score, showResults, inflight,
                 alertMsg, resultRow>>
  /\ UNCHANGED <<storeVars, authVars, fnVars>>

\* handleAnswerChange(answer), from the radio of an option of the current question
handleAnswerChange(answer) ==
  [answers EXCEPT ![currentQuestion + 1] = answer]

SelectAnswer(option) ==
  /\ TakeView = "taking"
  /\ option \in SeqSet(questions[currentQuestion + 1].options)
  /\ answers' = handleAnswerChange(option)
  /\ UNCHANGED <<caller, fetchPc, quiz, questions, currentQuestion, studentName,
                 studentEmail, loading, submitting, submitted, score, showResults,
                 inflight, alertMsg, resultRow>>
  /\ UNCHANGED <<storeVars, authVars, fnVars>>

\* the Next button is rendered when not on the last question (TakeQuiz.tsx 307, 321)
NextRendered == currentQuestion # Len(questions) - 1
\* a variant of the Next button with the condition inverted
NextDisabledWhenAnswered == ~Falsy(answers[currentQuestion + 1])
\* a variant of the Next button that is never disabled
NextNeverDisabled == FALSE
\* disabled={!answers[currentQuestion]}
NextDisabled == Falsy(answers[currentQuestion + 1])

\* nextQuestion()
nextQuestion ==
  IF currentQuestion < Len(questions) - 1 THEN currentQuestion + 1 ELSE currentQuestion

\* ui: the click is delivered only to an enabled button
ClickNext(ui) ==
  /\ TakeView = "taking"
  /\ NextRendered
  /\ ui => ~NextDisabled
  /\ currentQuestion' = nextQuestion
  /\ UNCHANGED <<caller, fetchPc, quiz, questions, answers, studentName,
                 studentEmail, loading, submitting, submitted, score, showResults,
                 inflight, alertMsg, resultRow>>
  /\ UNCHANGED <<storeVars, authVars, fnVars>>

\* disabled={currentQuestion === 0}
PreviousDisabled == currentQuestion = 0

\* previousQuestion()
previousQuestion ==
  IF currentQuestion > 0 THEN currentQuestion - 1 ELSE currentQuestion

ClickPrevious(ui) ==
  /\ TakeView = "taking"
  /\ ui => ~PreviousDisabled
  /\ currentQuestion' = previousQuestion
  /\ UNCHANGED <<caller, fetchPc, quiz, questions, answers, studentName,
                 studentEmail, loading, submitting, submitted, score, showResults,
                 inflight, alertMsg, resultRow>>
  /\ UNCHANGED <<storeVars, authVars, fnVars>>

\* the student fields are rendered on the first question until submitted
StudentFieldsRendered == currentQuestion = 0 /\ ~submitted

EditStudentName(v) ==
  /\ TakeView = "taking"
  /\ StudentFieldsRendered
  /\ studentName' = v
  /\ UNCHANGED <<caller, fetchPc, quiz, questions, currentQuestion, answers,
                 studentEmail, loading, submitting, submitted, score, showResults,
                 inflight, alertMsg, resultRow>>
  /\ UNCHANGED <<storeVars, authVars, fnVars>>

EditStudentEmail(v) ==
  /\ TakeView = "taking"
  /\ StudentFieldsRendered
  /\ studentEmail' = v
  /\ UNCHANGED <<caller, fetchPc, quiz, questions, currentQuestion, answers,
                 studentName, loading, submitting, submitted, score, showResults,
                 inflight, alertMsg, resultRow>>
  /\ UNCHANGED <<storeVars, authVars, fnVars>>

RECURSIVE ScoreFromTrimmed(_, _, _)
\* a variant of the loop that compares the trimmed texts
ScoreFromTrimmed(qs, ans, i) ==
  IF i < Len(qs)
  THEN (IF i + 1 \in DOMAIN ans /\ Trim(ans[i + 1]) = Trim(qs[i + 1].correct_answer)
        THEN 1 ELSE 0)
         + ScoreFromTrimmed(qs, ans, i + 1)
  ELSE 0

RECURSIVE ScoreFrom(_, _, _)
\* the loop of calculateScore from index i (0-based) on; an index past the end of
\* answers reads undefined, which equals no correct_answer
ScoreFrom(qs, ans, i) ==
  IF i < Len(qs)
  THEN (IF i + 1 \in DOMAIN ans /\ ans[i + 1] = qs[i + 1].correct_answer THEN 1 ELSE 0)
         + ScoreFrom(qs, ans, i + 1)
  ELSE 0

\* calculateScore()
calculateScore(qs, ans) == ScoreFrom(qs, ans, 0)

\* the Submit button is rendered on the last question (TakeQuiz.tsx 307-319)
SubmitRendered == currentQuestion = Len(questions) - 1
\* a variant of the disabled attribute without its submitting operand
SubmitDisabledWhileIdleOnly ==
  \/ Falsy(answers[currentQuestion + 1])
  \/ Falsy(Trim(studentName))
  \/ Falsy(Trim(studentEmail))

\* disabled={submitting || !answers[currentQuestion] || !studentName.trim() || !studentEmail.trim()}
SubmitDisabled ==
  \/ submitting
  \/ Falsy(answers[currentQuestion + 1])
  \/ Falsy(Trim(studentName))
  \/ Falsy(Trim(studentEmail))

\* handleSubmit, first return: !studentName.trim() || !studentEmail.trim()
MissingStudentInfo == Falsy(Trim(studentName)) \/ Falsy(Trim(studentEmail))
\* a variant of the second return that reads the current question's answer only,
\* as the Submit button's disabled attribute does
CurrentUnanswered(ans) == Falsy(Trim(ans[currentQuestion + 1]))
\* handleSubmit, second return: answers.some(answer => !answer.trim())
SomeUnanswered(ans) == \E i \in DOMAIN ans : Falsy(Trim(ans[i]))

\* a variant of the inserted object that takes total_questions from the index of
\* the question on screen
ResponseRowTotalFromIndex ==
  [quiz_id |-> QuizId,
   student_name |-> Trim(studentName),
   student_email |-> Trim(studentEmail),
   answers |-> answers,
   score |-> calculateScore(questions, answers),
   total_questions |-> currentQuestion]

\* the object handleSubmit passes to insert()
ResponseRow ==
  [quiz_id |-> QuizId,
   student_name |-> Trim(studentName),
   student_email |-> Trim(studentEmail),
   answers |-> answers,
   score |-> calculateScore(questions, answers),
   total_questions |-> Len(questions)]

\* handleSubmit up to its await
ClickSubmit(ui) ==
  /\ TakeView = "taking"
  /\ SubmitRendered
  /\ ui => ~SubmitDisabled
  \* called on a disabled button, the requests in flight are capped
  /\ ui \/ Len(inflight) < MaxInflight
  /\ IF MissingStudentInfo
     THEN /\ alertMsg' = "Please enter your name and email"
          /\ UNCHANGED <<submitting, inflight>>
     ELSE IF SomeUnanswered(answers)
     THEN /\ alertMsg' = "Please answer all questions before submitting"
          /\ UNCHANGED <<submitting, inflight>>
     ELSE /\ submitting' = TRUE
          /\ inflight' = Append(inflight, ResponseRow)
          /\ UNCHANGED alertMsg
  /\ UNCHANGED <<caller, fetchPc, quiz, questions, currentQuestion, answers, studentName,
                 studentEmail, loading, submitted, score, showResults, resultRow>>
  /\ UNCHANGED <<storeVars, authVars, fnVars>>

\* the store accepts the insert; handleSubmit resumes: setScore, setSubmitted,
\* setShowResults, finally setSubmitting(false)
SubmitSucceeds ==
  /\ inflight # <<>>
  /\ ResponseAccepted(Head(inflight))
  /\ dbResponses' = Append(dbResponses, Head(inflight))
  /\ inflight' = Tail(inflight)
  /\ score' = Head(inflight).score
  /\ submitted' = TRUE
  /\ showResults' = TRUE
  /\ submitting' = FALSE
  /\ resultRow' = Head(inflight)
  /\ UNCHANGED <<caller, fetchPc, quiz, questions, currentQuestion, answers, studentName,
                 studentEmail, loading, alertMsg>>
  /\ UNCHANGED <<dbQuiz, dbQuestions, dbNextId, dbRegisterColumn, ownerOps, ownerPc>>
  /\ UNCHANGED <<authVars, fnVars>>

\* a variant of the failure path without the finally block
SubmitFailsWithoutFinally ==
  /\ inflight # <<>>
  /\ inflight' = Tail(inflight)
  /\ alertMsg' = "Failed to submit quiz. Please try again."
  /\ UNCHANGED <<caller, fetchPc, quiz, questions, currentQuestion, answers, studentName,
                 studentEmail, loading, submitting, submitted, score, showResults,
                 resultRow>>
  /\ UNCHANGED <<storeVars, authVars, fnVars>>

\* the insert fails (constraint, foreign key, network): catch alerts, finally
\* setSubmitting(false)
SubmitFails ==
  /\ inflight # <<>>
  /\ inflight' = Tail(inflight)
  /\ alertMsg' = "Failed to submit quiz. Please try again."
  /\ submitting' = FALSE
  /\ UNCHANGED <<caller, fetchPc, quiz, questions, currentQuestion, answers, studentName,
                 studentEmail, loading, submitted, score, showResults, resultRow>>
  /\ UNCHANGED <<storeVars, authVars, fnVars>>

TakeStep(ui) ==
  \/ FetchQuizRow
  \/ FetchQuestionRows
  \/ FetchFails
  \/ \E option \in SeqSet(StoredOptions) : SelectAnswer(option)
  \/ ClickNext(ui)
  \/ ClickPrevious(ui)
  \/ \E v \in StudentNames : EditStudentName(v)
  \/ \E v \in StudentEmails : EditStudentEmail(v)
  \/ ClickSubmit(ui)
  \/ SubmitSucceeds
  \/ SubmitFails

(***************************************************************************)
(* CreateQuiz.tsx and EditQuiz.tsx: the authoring pages.                   *)
(*                                                                         *)
(* The handlers copy the questions array ([...questions]) but not the      *)
(* question objects nor their options arrays, which they then change in    *)
(* place; so objects and options arrays live in a heap and the questions   *)
(* state is an array of references.  A handler is an operator from the     *)
(* rendered state to [heap, opts, questions].                              *)
(***************************************************************************)
MaxOptions == 5
MinOptions == 2

OptionTexts == {"", "A"}
QuestionTexts == {"", "Q"}

\* the value of reading past the end of an array
Undefined == "<undefined>"
\* CreateQuiz questions carry no id; `temp-${Date.now()}` of EditQuiz addQuestion
NoId == 0
TempId == -1
\* question.id.startsWith('temp-')
IsTempId(id) == id < 0

MaxOf(S) == IF S = {} THEN 0 ELSE CHOOSE m \in S : \A x \in S : x <= m

\* array.splice(i, 1) / filter((_, j) => j !== i), i 0-based
RemoveAt(arr, i) ==
  [j \in 1..(Len(arr) - 1) |-> IF j < i + 1 THEN arr[j] ELSE arr[j + 1]]

\* arr[i], i 0-based, as JavaScript reads it
At(arr, i) == IF i + 1 \in DOMAIN arr THEN arr[i + 1] ELSE Undefined

Unchanged == [heap |-> aHeap, opts |-> aOpts, questions |-> aQuestions]

\* the options array of the question at 0-based position i of the rendered draft
OptionsAt(i) == aOpts[aHeap[aQuestions[i + 1]].options]

\* the draft as values: what the page renders
View(heap, opts, qs) ==
  [i \in 1..Len(qs) |->
     [question_text |-> heap[qs[i]].question_text,
      options |-> opts[heap[qs[i]].options],
      correct_answer |-> heap[qs[i]].correct_answer,
      order_index |-> heap[qs[i]].order_index,
      id |-> heap[qs[i]].id]]

Draft == View(aHeap, aOpts, aQuestions)

\* qs.map((q, i) => ({ ...q, order_index: i })): a new object per question,
\* sharing the options array of the object it copies
Resequence(heap, qs) ==
  LET base == MaxOf(DOMAIN heap)
  IN  [heap |-> [r \in DOMAIN heap \cup { base + i : i \in 1..Len(qs) } |->
                   IF r \in DOMAIN heap THEN heap[r]
                   ELSE [heap[qs[r - base]] EXCEPT !.order_index = r - base - 1]],
       opts |-> aOpts,
       questions |-> [i \in 1..Len(qs) |-> base + i]]

\* [...questions, { question_text: '', options: ['', ''], correct_answer: '',
\*                  order_index: questions.length }]
AppendQuestion(id) ==
  LET ref == MaxOf(DOMAIN aHeap) + 1
      oref == MaxOf(DOMAIN aOpts) + 1
  IN  [heap |-> [r \in DOMAIN aHeap \cup {ref} |->
                   IF r = ref
                   THEN [question_text |-> "", options |-> oref, correct_answer |-> "",
                         order_index |-> Len(aQuestions), id |-> id]
                   ELSE aHeap[r]],
       opts |-> [r \in DOMAIN aOpts \cup {oref} |->
                   IF r = oref THEN <<"", "">> ELSE aOpts[r]],
       questions |-> Append(aQuestions, ref)]

CreateQuiz_addQuestion == AppendQuestion(NoId)
EditQuiz_addQuestion == AppendQuestion(TempId)

\* CreateQuiz removeQuestion(index)
CreateQuiz_removeQuestion(index) ==
  IF Len(aQuestions) = 1 THEN Unchanged
  ELSE Resequence(aHeap, RemoveAt(aQuestions, index))

\* EditQuiz removeQuestion(index) after its await: `questions` and `index` are
\* those of the render in which the handler was called
EditQuiz_removeQuestionResume(captured, index) ==
  Resequence(aHeap, RemoveAt(captured, index))

\* EditQuiz removeQuestion(index) when it reaches no await: one question is left
\* (it returns at once) or the question carries a temp id
EditQuiz_removeQuestion(index) ==
  IF Len(aQuestions) = 1 THEN Unchanged
  ELSE EditQuiz_removeQuestionResume(aQuestions, index)

\* moveQuestion(index, direction)
MoveQuestionOf(index, direction) ==
  LET newIndex == IF direction = "up" THEN index - 1 ELSE index + 1
  IN  IF newIndex < 0 \/ newIndex >= Len(aQuestions) THEN Unchanged
      ELSE Resequence(aHeap,
             [i \in 1..Len(aQuestions) |->
                IF i = index + 1 THEN aQuestions[newIndex + 1]
                ELSE IF i = newIndex + 1 THEN aQuestions[index + 1]
                ELSE aQuestions[i]])

CreateQuiz_moveQuestion(index, direction) == MoveQuestionOf(index, direction)
EditQuiz_moveQuestion(index, direction) == MoveQuestionOf(index, direction)

\* updateQuestion(index, field, value): newQuestions[index] = { ...old, [field]: value }
UpdateQuestionOf(index, field, value) ==
  LET ref == MaxOf(DOMAIN aHeap) + 1
  IN  [heap |-> [r \in DOMAIN aHeap \cup {ref} |->
                   IF r = ref THEN [aHeap[aQuestions[index + 1]] EXCEPT ![field] = value]
                   ELSE aHeap[r]],
       opts |-> aOpts,
       questions |-> [aQuestions EXCEPT ![index + 1] = ref]]

CreateQuiz_updateQuestion(index, field, value) == UpdateQuestionOf(index, field, value)
EditQuiz_updateQuestion(index, field, value) == UpdateQuestionOf(index, field, value)

\* a variant of addOption whose guard is > instead of >=
AddOptionOfOffByOne(questionIndex) ==
  IF Len(OptionsAt(questionIndex)) > MaxOptions THEN Unchanged
  ELSE [heap |-> aHeap,
        opts |-> [aOpts EXCEPT ![aHeap[aQuestions[questionIndex + 1]].options] =
                    Append(@, "")],
        questions |-> aQuestions]

\* addOption(questionIndex): options.push('') on the shared array
AddOptionOf(questionIndex) ==
  IF Len(OptionsAt(questionIndex)) >= MaxOptions THEN Unchanged
  ELSE [heap |-> aHeap,
        opts |-> [aOpts EXCEPT ![aHeap[aQuestions[questionIndex + 1]].options] =
                    Append(@, "")],
        questions |-> aQuestions]

CreateQuiz_addOption(questionIndex) == AddOptionOf(questionIndex)
EditQuiz_addOption(questionIndex) == AddOptionOf(questionIndex)

\* CreateQuiz removeOption: the splice runs first, and the comparison then reads
\* questions[questionIndex].options[optionIndex] from the same, already spliced array
CreateQuiz_removeOption(questionIndex, optionIndex) ==
  IF Len(OptionsAt(questionIndex)) <= MinOptions THEN Unchanged
  ELSE LET ref == aQuestions[questionIndex + 1]
           spliced == RemoveAt(OptionsAt(questionIndex), optionIndex)
       IN  [heap |-> [aHeap EXCEPT ![ref].correct_answer =
                        IF @ = At(spliced, optionIndex) THEN "" ELSE @],
            opts |-> [aOpts EXCEPT ![aHeap[ref].options] = spliced],
            questions |-> aQuestions]

\* EditQuiz removeOption: removedOption is read before the splice
EditQuiz_removeOption(questionIndex, optionIndex) ==
  IF Len(OptionsAt(questionIndex)) <= MinOptions THEN Unchanged
  ELSE LET ref == aQuestions[questionIndex + 1]
           removedOption == At(OptionsAt(questionIndex), optionIndex)
       IN  [heap |-> [aHeap EXCEPT ![ref].correct_answer =
                        IF @ = removedOption THEN "" ELSE @],
            opts |-> [aOpts EXCEPT ![aHeap[ref].options] =
                        RemoveAt(OptionsAt(questionIndex), optionIndex)],
            questions |-> aQuestions]

\* CreateQuiz updateOption: options[optionIndex] = value, nothing else
CreateQuiz_updateOption(questionIndex, optionIndex, value) ==
  [heap |-> aHeap,
   opts |-> [aOpts EXCEPT ![aHeap[aQuestions[questionIndex + 1]].options][optionIndex + 1] =
               value],
   questions |-> aQuestions]

\* EditQuiz updateOption: correct_answer follows the option when it was its old value
EditQuiz_updateOption(questionIndex, optionIndex, value) ==
  LET ref == aQuestions[questionIndex + 1]
      oldValue == At(OptionsAt(questionIndex), optionIndex)
  IN  [heap |-> [aHeap EXCEPT ![ref].correct_answer = IF @ = oldValue THEN value ELSE @],
       opts |-> [aOpts EXCEPT ![aHeap[ref].options][optionIndex + 1] = value],
       questions |-> aQuestions]

RECURSIVE CapturedRefs(_)
\* the references held by the suspended removeQuestion calls, in order
CapturedRefs(pend) ==
  IF pend = <<>> THEN <<>> ELSE Head(pend).questions \o CapturedRefs(Tail(pend))

RECURSIVE FirstOccurrences(_, _)
\* seq without the later occurrences of an element
FirstOccurrences(seq, seen) ==
  IF seq = <<>> THEN <<>>
  ELSE IF Head(seq) \in seen THEN FirstOccurrences(Tail(seq), seen)
  ELSE <<Head(seq)>> \o FirstOccurrences(Tail(seq), seen \cup {Head(seq)})

\* The handler's result becomes the next state: setQuestions(res.questions), with the
\* in-place changes of res.heap and res.opts.  Objects and arrays that nothing refers
\* to any more are dropped and the references renumbered in order of appearance.
CommitAll(res, pend, last, captured) ==
  \E r \in {res} :
  \E order \in { FirstOccurrences(r.questions \o CapturedRefs(pend) \o captured, {}) } :
  \E orderO \in { FirstOccurrences([k \in DOMAIN order |-> r.heap[order[k]].options], {}) } :
  \E rank \in { [x \in SeqSet(order) |-> CHOOSE k \in DOMAIN order : order[k] = x] } :
  \E rankO \in { [o \in SeqSet(orderO) |-> CHOOSE k \in DOMAIN orderO : orderO[k] = o] } :
      /\ aHeap' = [k \in DOMAIN order |->
                     [r.heap[order[k]] EXCEPT !.options = rankO[@]]]
      /\ aOpts' = [k \in DOMAIN orderO |-> r.opts[orderO[k]]]
      /\ aQuestions' = [i \in DOMAIN r.questions |-> rank[r.questions[i]]]
      /\ aPending' = [p \in DOMAIN pend |->
                        [pend[p] EXCEPT !.questions = [i \in DOMAIN @ |-> rank[@[i]]]]]
      /\ saveCaptured' = [i \in DOMAIN captured |-> rank[captured[i]]]
      /\ aLast' = last

\* a handler other than handleSubmit: the array a running handleSubmit holds stays
Commit(res, pend, last) == CommitAll(res, pend, last, saveCaptured)

Called(op, index, optionIndex, value) ==
  [op |-> op, index |-> index, optionIndex |-> optionIndex, value |-> value]

\* persisted quizzes the edit page loads: at least one question
LoadedQuestion == [question_text |-> "Q", options |-> StoredOptions, correct_answer |-> "A"]
FullQuestion ==
  [question_text |-> "Q", options |-> <<"A", "B", "C", "D", "E">>, correct_answer |-> "B"]
LoadedDrafts ==
  { d \in SeqsUpTo({LoadedQuestion}, MaxDraftQuestions) : Len(d) >= 1 } \cup { <<FullQuestion>> }

\* EditQuiz fetchQuiz: setQuestions(questionsData), the rows by order_index
LoadedHeap(rows) ==
  [i \in DOMAIN rows |->
     [question_text |-> rows[i].question_text, options |-> i,
      correct_answer |-> rows[i].correct_answer,
      order_index |-> rows[i].order_index, id |-> rows[i].id]]
LoadedOpts(rows) == [i \in DOMAIN rows |-> rows[i].options]

\* no handleSubmit has run
SaveIdle ==
  /\ savePc = "idle"
  /\ saveCaptured = <<>>
  /\ saveLog = <<>>
  /\ saves = 0

AuthIdle ==
  /\ page = "none"
  /\ title = ""
  /\ aHeap = <<>>
  /\ aOpts = <<>>
  /\ aQuestions = <<>>
  /\ aPending = <<>>
  /\ aSteps = 0
  /\ aLast = Called("init", -1, -1, "")
  /\ SaveIdle

\* CreateQuiz mounts with one empty question (CreateQuiz.tsx 13-20)
CreateInit ==
  /\ page = "create"
  /\ title = ""
  /\ aHeap = <<[question_text |-> "", options |-> 1, correct_answer |-> "",
                order_index |-> 0, id |-> NoId]>>
  /\ aOpts = << <<"", "">> >>
  /\ aQuestions = <<1>>
  /\ aPending = <<>>
  /\ aSteps = 0
  /\ aLast = Called("init", -1, -1, "")
  /\ SaveIdle
  /\ StoreIdle

\* EditQuiz mounts and fetchQuiz has loaded the owner's quiz
EditInit ==
  /\ page = "edit"
  /\ title = "T"
  /\ dbQuiz = [exists |-> TRUE, is_active |-> TRUE]
  /\ \E d \in LoadedDrafts : dbQuestions = RowsOf(d, 1)
  /\ dbResponses = <<>>
  /\ dbNextId = Cardinality(dbQuestions) + 1
  /\ dbRegisterColumn = TRUE
  /\ ownerOps = 0
  /\ ownerPc = "idle"
  /\ aHeap = LoadedHeap(OrderByIndex(dbQuestions))
  /\ aOpts = LoadedOpts(OrderByIndex(dbQuestions))
  /\ aQuestions = [i \in 1..Cardinality(dbQuestions) |-> i]
  /\ aPending = <<>>
  /\ aSteps = 0
  /\ aLast = Called("init", -1, -1, "")
  /\ SaveIdle

\* a handler is called on the rendered draft
Calling ==
  /\ page \in {"create", "edit"}
  /\ aSteps < MaxSteps
  /\ aSteps' = aSteps + 1
  /\ UNCHANGED page

QuestionIndexes == 0..(Len(aQuestions) - 1)
OptionIndexes(questionIndex) == 0..(Len(OptionsAt(questionIndex)) - 1)

AddQuestion ==
  /\ Calling
  /\ Len(aQuestions) < MaxDraftQuestions
  /\ Commit(IF page = "create" THEN CreateQuiz_addQuestion ELSE EditQuiz_addQuestion,
            aPending, Called("addQuestion", -1, -1, ""))
  /\ UNCHANGED <<storeVars, takeVars, fnVars, saveVars>>

\* CreateQuiz removeQuestion; EditQuiz removeQuestion when it returns at once
\* (one question left) or reaches no await (a temp id)
RemoveQuestion(index) ==
  /\ Calling
  /\ index \in QuestionIndexes
  /\ \/ /\ page = "create"
        /\ Commit(CreateQuiz_removeQuestion(index), aPending,
                  Called("removeQuestion", index, -1, ""))
     \/ /\ page = "edit"
        /\ Len(aQuestions) = 1 \/ IsTempId(aHeap[aQuestions[index + 1]].id)
        /\ Commit(EditQuiz_removeQuestion(index), aPending,
                  Called("removeQuestion", index, -1, ""))
  /\ UNCHANGED <<storeVars, takeVars, fnVars, saveVars>>

\* EditQuiz removeQuestion of a stored question: the call suspends at
\* await supabase.from('questions').delete().eq('id', question.id)
RemoveQuestionCall(index) ==
  /\ Calling
  /\ page = "edit"
  /\ index \in QuestionIndexes
  /\ Len(aQuestions) # 1
  /\ ~IsTempId(aHeap[aQuestions[index + 1]].id)
  /\ Len(aPending) < MaxPending
  /\ Commit(Unchanged,
            Append(aPending, [questions |-> aQuestions, index |-> index,
                              id |-> aHeap[aQuestions[index + 1]].id]),
            Called("removeQuestionCall", index, -1, ""))
  /\ UNCHANGED <<storeVars, takeVars, fnVars, saveVars>>

\* the delete request is answered (the row is deleted, or the client reports an
\* error in its result, which the handler does not read) and the call resumes
RemoveQuestionResume(k, deleted) ==
  /\ page = "edit"
  /\ k \in DOMAIN aPending
  /\ dbQuestions' = IF deleted THEN { r \in dbQuestions : r.id # aPending[k].id }
                    ELSE dbQuestions
  /\ Commit(EditQuiz_removeQuestionResume(aPending[k].questions, aPending[k].index),
            RemoveAt(aPending, k - 1),
            Called("removeQuestion", aPending[k].index, -1, ""))
  /\ UNCHANGED <<page, aSteps, saveVars>>
  /\ UNCHANGED <<dbQuiz, dbResponses, dbNextId, dbRegisterColumn, ownerOps, ownerPc>>
  /\ UNCHANGED <<takeVars, fnVars>>

\* the awaited request throws: catch logs and returns
RemoveQuestionThrows(k) ==
  /\ page = "edit"
  /\ k \in DOMAIN aPending
  /\ Commit(Unchanged, RemoveAt(aPending, k - 1),
            Called("removeQuestionThrew", aPending[k].index, -1, ""))
  /\ UNCHANGED <<page, aSteps, saveVars>>
  /\ UNCHANGED <<storeVars, takeVars, fnVars>>

MoveQuestion(index, direction) ==
  /\ Calling
  /\ index \in QuestionIndexes
  /\ Commit(IF page = "create" THEN CreateQuiz_moveQuestion(index, direction)
            ELSE EditQuiz_moveQuestion(index, direction),
            aPending, Called("moveQuestion", index, -1, direction))
  /\ UNCHANGED <<storeVars, takeVars, fnVars, saveVars>>

\* the question text box: updateQuestion(questionIndex, 'question_text', value)
EditQuestionText(index, value) ==
  /\ Calling
  /\ index \in QuestionIndexes
  /\ Commit(IF page = "create" THEN CreateQuiz_updateQuestion(index, "question_text", value)
            ELSE EditQuiz_updateQuestion(index, "question_text", value),
            aPending, Called("updateQuestionText", index, -1, value))
  /\ UNCHANGED <<storeVars, takeVars, fnVars, saveVars>>

\* the radio of an option: updateQuestion(questionIndex, 'correct_answer', option)
SelectCorrect(index, optionIndex) ==
  /\ Calling
  /\ index \in QuestionIndexes
  /\ optionIndex \in OptionIndexes(index)
  /\ LET option == At(OptionsAt(index), optionIndex)
     IN  Commit(IF page = "create"
                THEN CreateQuiz_updateQuestion(index, "correct_answer", option)
                ELSE EditQuiz_updateQuestion(index, "correct_answer", option),
                aPending, Called("selectCorrect", index, optionIndex, option))
  /\ UNCHANGED <<storeVars, takeVars, fnVars, saveVars>>

AddOption(questionIndex) ==
  /\ Calling
  /\ questionIndex \in QuestionIndexes
  /\ Commit(IF page = "create" THEN CreateQuiz_addOption(questionIndex)
            ELSE EditQuiz_addOption(questionIndex),
            aPending, Called("addOption", questionIndex, -1, ""))
  /\ UNCHANGED <<storeVars, takeVars, fnVars, saveVars>>

RemoveOption(questionIndex, optionIndex) ==
  /\ Calling
  /\ questionIndex \in QuestionIndexes
  /\ optionIndex \in OptionIndexes(questionIndex)
  /\ Commit(IF page = "create" THEN CreateQuiz_removeOption(questionIndex, optionIndex)
            ELSE EditQuiz_removeOption(questionIndex, optionIndex),
            aPending, Called("removeOption", questionIndex, optionIndex, ""))
  /\ UNCHANGED <<storeVars, takeVars, fnVars, saveVars>>

UpdateOption(questionIndex, optionIndex, value) ==
  /\ Calling
  /\ questionIndex \in QuestionIndexes
  /\ optionIndex \in OptionIndexes(questionIndex)
  /\ Commit(IF page = "create"
            THEN CreateQuiz_updateOption(questionIndex, optionIndex, value)
            ELSE EditQuiz_updateOption(questionIndex, optionIndex, value),
            aPending, Called("updateOption", questionIndex, optionIndex, value))
  /\ UNCHANGED <<storeVars, takeVars, fnVars, saveVars>>

\* the owner leaves the edit page and opens it again: EditQuiz mounts anew and
\* fetchQuiz loads the stored rows by order_index
EditQuiz_fetchQuiz ==
  LET rows == OrderByIndex(VisibleQuestions("owner"))
  IN  [heap |-> LoadedHeap(rows), opts |-> LoadedOpts(rows),
       questions |-> [i \in DOMAIN rows |-> i]]

ReopenEdit ==
  /\ Calling
  /\ page = "edit"
  /\ aPending = <<>>
  /\ Commit(EditQuiz_fetchQuiz, <<>>, Called("fetchQuiz", -1, -1, ""))
  /\ UNCHANGED <<storeVars, takeVars, fnVars, saveVars>>

QuestionSlots == 0..MaxDraftQuestions
OptionSlots == 0..(MaxOptions - 1)

AuthStep ==
  \/ AddQuestion
  \/ \E i \in QuestionSlots : RemoveQuestion(i)
  \/ \E i \in QuestionSlots : RemoveQuestionCall(i)
  \/ \E k \in 1..MaxPending, deleted \in BOOLEAN : RemoveQuestionResume(k, deleted)
  \/ \E k \in 1..MaxPending : RemoveQuestionThrows(k)
  \/ \E i \in QuestionSlots, d \in {"up", "down"} : MoveQuestion(i, d)
  \/ \E i \in QuestionSlots, v \in QuestionTexts : EditQuestionText(i, v)
  \/ \E i \in QuestionSlots, o \in OptionSlots : SelectCorrect(i, o)
  \/ \E i \in QuestionSlots : AddOption(i)
  \/ \E i \in QuestionSlots, o \in OptionSlots : RemoveOption(i, o)
  \/ \E i \in QuestionSlots, o \in OptionSlots, v \in OptionTexts : UpdateOption(i, o, v)
  \/ ReopenEdit

(***************************************************************************)
(* CreateQuiz.tsx and EditQuiz.tsx: validateForm and handleSubmit.         *)
(*                                                                         *)
(* handleSubmit validates the rendered draft, then awaits one store        *)
(* request after the other.  It closes over the questions array of the     *)
(* render it was called in; the objects and options arrays that array      *)
(* refers to are the ones the option handlers change in place, and only    *)
(* the Submit button is disabled while it runs.                            *)
(***************************************************************************)
MaxSaves == 1          \* handleSubmit calls of one page
MaxSaveEdits == 1      \* handler calls while a handleSubmit is awaiting

NoFailure == [rule |-> "none", question |-> 0]

\* a variant of the loop of validateForm without its last check
RECURSIVE ValidateWithoutMembership(_, _)
ValidateWithoutMembership(d, i) ==
  IF i > Len(d) THEN NoFailure
  ELSE IF Falsy(Trim(d[i].question_text)) THEN [rule |-> "text", question |-> i]
  ELSE IF \E o \in DOMAIN d[i].options : Falsy(Trim(d[i].options[o]))
       THEN [rule |-> "options", question |-> i]
  ELSE IF Falsy(Trim(d[i].correct_answer)) THEN [rule |-> "correct", question |-> i]
  ELSE ValidateWithoutMembership(d, i + 1)

RECURSIVE ValidateQuestionsFrom(_, _)
\* the loop of validateForm from question i (1-based, as the alerts number them):
\* the first failing check of the first failing question returns
ValidateQuestionsFrom(d, i) ==
  IF i > Len(d) THEN NoFailure
  ELSE IF Falsy(Trim(d[i].question_text)) THEN [rule |-> "text", question |-> i]
  ELSE IF \E o \in DOMAIN d[i].options : Falsy(Trim(d[i].options[o]))
       THEN [rule |-> "options", question |-> i]
  ELSE IF Falsy(Trim(d[i].correct_answer)) THEN [rule |-> "correct", question |-> i]
  ELSE IF d[i].correct_answer \notin SeqSet(d[i].options)
       THEN [rule |-> "member", question |-> i]
  ELSE ValidateQuestionsFrom(d, i + 1)

\* validateForm: the alert it raises, or NoFailure when it returns true
ValidateFormOf(t, d) ==
  IF Falsy(Trim(t)) THEN [rule |-> "title", question |-> 0]
  ELSE ValidateQuestionsFrom(d, 1)

CreateQuiz_validateForm(t, d) == ValidateFormOf(t, d)
EditQuiz_validateForm(t, d) == ValidateFormOf(t, d)

validateForm == IF page = "create" THEN CreateQuiz_validateForm(title, Draft)
                ELSE EditQuiz_validateForm(title, Draft)

\* questions.map(...) of handleSubmit over the array it closed over, read when the
\* preceding await has returned
CapturedDraft == View(aHeap, aOpts, saveCaptured)

\* CreateQuiz handleSubmit: order_index is the question's own order_index
CreateQuiz_questionsToInsert ==
  [i \in DOMAIN CapturedDraft |->
     [question_text |-> Trim(CapturedDraft[i].question_text),
      options |-> [o \in DOMAIN CapturedDraft[i].options |->
                     Trim(CapturedDraft[i].options[o])],
      correct_answer |-> Trim(CapturedDraft[i].correct_answer),
      order_index |-> CapturedDraft[i].order_index]]

\* EditQuiz handleSubmit: order_index is the array index
EditQuiz_questionsToInsert ==
  [i \in DOMAIN CapturedDraft |->
     [question_text |-> Trim(CapturedDraft[i].question_text),
      options |-> [o \in DOMAIN CapturedDraft[i].options |->
                     Trim(CapturedDraft[i].options[o])],
      correct_answer |-> Trim(CapturedDraft[i].correct_answer),
      order_index |-> i - 1]]

\* the rows the store creates for an inserted array, ids in array order
InsertedRows(rows, firstId) ==
  { [id |-> firstId + i - 1,
     question_text |-> rows[i].question_text,
     options |-> rows[i].options,
     correct_answer |-> rows[i].correct_answer,
     order_index |-> rows[i].order_index] : i \in DOMAIN rows }

Request(op, t, rows) == [op |-> op, title |-> t, rows |-> rows]

Saving == savePc \in {"quiz", "delete", "insert"}

\* handleSubmit up to its first await.  The Submit button is disabled={loading}
\* (CreateQuiz) / disabled={saving} (EditQuiz) while an earlier call is running.
HandleSubmit ==
  /\ page \in {"create", "edit"}
  /\ savePc = "idle"
  /\ saves < MaxSaves
  /\ saves' = saves + 1
  /\ IF validateForm # NoFailure
     THEN /\ CommitAll(Unchanged, aPending,
                       Called("handleSubmit", validateForm.question, -1,
                              validateForm.rule), <<>>)
          /\ saveLog' = <<>>
          /\ UNCHANGED savePc
     ELSE /\ CommitAll(Unchanged, aPending, Called("handleSubmit", 0, -1, "none"),
                       aQuestions)
          /\ saveLog' = <<Request(IF page = "create" THEN "insertQuiz" ELSE "updateQuiz",
                                  Trim(title), <<>>)>>
          /\ savePc' = "quiz"
  /\ UNCHANGED <<page, aSteps, title>>
  /\ UNCHANGED <<storeVars, takeVars, fnVars>>

\* CreateQuiz: the quiz row is inserted, active; the question rows are built and
\* their insert is issued
CreateQuizInserted ==
  /\ page = "create"
  /\ savePc = "quiz"
  /\ dbQuiz' = [exists |-> TRUE, is_active |-> TRUE]
  /\ saveLog' = Append(saveLog, Request("insert", "", CreateQuiz_questionsToInsert))
  /\ savePc' = "insert"
  /\ UNCHANGED <<page, aHeap, aOpts, aQuestions, aPending, aSteps, aLast, saveCaptured,
                 title, saves>>
  /\ UNCHANGED <<dbQuestions, dbResponses, dbNextId, dbRegisterColumn, ownerOps, ownerPc>>
  /\ UNCHANGED <<takeVars, fnVars>>

\* EditQuiz: the quiz row is updated; the delete of its question rows is issued
EditQuizUpdated ==
  /\ page = "edit"
  /\ savePc = "quiz"
  /\ saveLog' = Append(saveLog, Request("delete", "", <<>>))
  /\ savePc' = "delete"
  /\ UNCHANGED <<page, aHeap, aOpts, aQuestions, aPending, aSteps, aLast, saveCaptured,
                 title, saves>>
  /\ UNCHANGED <<storeVars, takeVars, fnVars>>

\* a variant in which the delete request removes no row
EditQuestionsKept ==
  /\ savePc = "delete"
  /\ saveLog' = Append(saveLog, Request("insert", "", EditQuiz_questionsToInsert))
  /\ savePc' = "insert"
  /\ UNCHANGED <<page, aHeap, aOpts, aQuestions, aPending, aSteps, aLast, saveCaptured,
                 title, saves>>
  /\ UNCHANGED <<storeVars, takeVars, fnVars>>

\* EditQuiz: the question rows are deleted; the new rows are built and their
\* insert is issued
EditQuestionsDeleted ==
  /\ savePc = "delete"
  /\ dbQuestions' = {}
  /\ saveLog' = Append(saveLog, Request("insert", "", EditQuiz_questionsToInsert))
  /\ savePc' = "insert"
  /\ UNCHANGED <<page, aHeap, aOpts, aQuestions, aPending, aSteps, aLast, saveCaptured,
                 title, saves>>
  /\ UNCHANGED <<dbQuiz, dbResponses, dbNextId, dbRegisterColumn, ownerOps, ownerPc>>
  /\ UNCHANGED <<takeVars, fnVars>>

\* the question rows are inserted; navigate('/dashboard') unmounts the page
QuestionsInserted ==
  /\ savePc = "insert"
  /\ LET rows == saveLog[Len(saveLog)].rows
     IN  /\ dbQuestions' = dbQuestions \cup InsertedRows(rows, dbNextId)
         /\ dbNextId' = dbNextId + Len(rows)
  /\ savePc' = "done"
  /\ page' = "none"
  /\ UNCHANGED <<aHeap, aOpts, aQuestions, aPending, aSteps, aLast, saveCaptured,
                 title, saveLog, saves>>
  /\ UNCHANGED <<dbQuiz, dbResponses, dbRegisterColumn, ownerOps, ownerPc>>
  /\ UNCHANGED <<takeVars, fnVars>>

\* the awaited request returns an error: catch alerts, finally setLoading(false) /
\* setSaving(false); nothing is undone
SaveRequestFails ==
  /\ Saving
  /\ CommitAll(Unchanged, aPending, Called("handleSubmit", 0, -1, "failed"), <<>>)
  /\ savePc' = "idle"
  /\ UNCHANGED <<page, aSteps, title, saveLog, saves>>
  /\ UNCHANGED <<storeVars, takeVars, fnVars>>

SaveStep ==
  \/ HandleSubmit
  \/ CreateQuizInserted
  \/ EditQuizUpdated
  \/ EditQuestionsDeleted
  \/ QuestionsInserted
  \/ SaveRequestFails

\* the inputs stay enabled while handleSubmit awaits
EditWhileSaving ==
  /\ Saving
  /\ aSteps < MaxSaveEdits
  /\ \/ \E i \in QuestionSlots, v \in QuestionTexts : EditQuestionText(i, v)
     \/ \E i \in QuestionSlots, o \in OptionSlots : SelectCorrect(i, o)
     \/ \E i \in QuestionSlots : AddOption(i)
     \/ \E i \in QuestionSlots, o \in OptionSlots : RemoveOption(i, o)
     \/ \E i \in QuestionSlots, o \in OptionSlots, v \in OptionTexts : UpdateOption(i, o, v)

\* drafts the owner can have typed when Submit is clicked
Titles == {"", " T"}
TypedQuestionPool ==
  { [question_text |-> "Q", options |-> <<"A", "B">>, correct_answer |-> "A"],
    [question_text |-> "Q", options |-> <<"A", "A">>, correct_answer |-> "A"],
    [question_text |-> "Q", options |-> <<" A", "B">>, correct_answer |-> " A"],
    [question_text |-> "", options |-> <<"A", "B">>, correct_answer |-> "A"],
    [question_text |-> "Q", options |-> <<"A", " ">>, correct_answer |-> "A"],
    [question_text |-> "Q", options |-> <<"A", "B">>, correct_answer |-> ""],
    [question_text |-> "Q", options |-> <<"A", "B">>, correct_answer |-> "C"] }
TypedDrafts ==
  { d \in SeqsUpTo(TypedQuestionPool, MaxDraftQuestions) : Len(d) >= 1 }

TypedHeap(d, ids) ==
  [i \in DOMAIN d |->
     [question_text |-> d[i].question_text, options |-> i,
      correct_answer |-> d[i].correct_answer, order_index |-> i - 1, id |-> ids[i]]]

\* CreateQuiz with a typed draft: nothing is stored yet
CreateTypedInit ==
  /\ page = "create"
  /\ StoreIdle
  /\ title \in Titles
  /\ \E d \in TypedDrafts :
       /\ aHeap = TypedHeap(d, [i \in DOMAIN d |-> NoId])
       /\ aOpts = [i \in DOMAIN d |-> d[i].options]
       /\ aQuestions = [i \in DOMAIN d |-> i]
  /\ aPending = <<>>
  /\ aSteps = 0
  /\ aLast = Called("init", -1, -1, "")
  /\ SaveIdle

\* EditQuiz with the loaded questions retyped: the store holds the rows loaded
EditTypedInit ==
  /\ page = "edit"
  /\ title \in Titles
  /\ \E d \in TypedDrafts :
       /\ dbQuestions = RowsOf([i \in DOMAIN d |-> LoadedQuestion], 1)
       /\ aHeap = TypedHeap(d, [i \in DOMAIN d |-> i])
       /\ aOpts = [i \in DOMAIN d |-> d[i].options]
       /\ aQuestions = [i \in DOMAIN d |-> i]
  /\ dbQuiz = [exists |-> TRUE, is_active |-> TRUE]
  /\ dbResponses = <<>>
  /\ dbNextId = Cardinality(dbQuestions) + 1
  /\ dbRegisterColumn = TRUE
  /\ ownerOps = 0
  /\ ownerPc = "idle"
  /\ aPending = <<>>
  /\ aSteps = 0
  /\ aLast = Called("init", -1, -1, "")
  /\ SaveIdle

(***************************************************************************)
(* calculateScore applied to drawn questions and answers.                  *)
(***************************************************************************)
ScoreTexts == {"A", "a", "B", "C", " A"}
MaxScoreLen == 2

ScoreIdle ==
  /\ fnQuestions = <<>>
  /\ fnAnswers = <<>>
  /\ fnScore = -1

\* calculateStats has not run: no object it returns has a negative count
NoStats == [averageScore |-> 0, totalResponses |-> -1, averagePercentage |-> 0]

\* exportToCSV has not run
NoCsv == [header |-> <<>>, rows |-> <<>>, alert |-> ""]

StatsIdle ==
  /\ stScores = <<>>
  /\ stQuestionCount = 0
  /\ stResult = NoStats
  /\ resResponses = <<>>
  /\ csv = NoCsv

\* no dashboard is open
DashIdle ==
  /\ dbQuizzes = <<>>
  /\ quizzes = <<>>
  /\ dashLoading = TRUE
  /\ dashPending = {}
  /\ dashIssued = 0
  /\ dashFailed = FALSE

FnIdle == ScoreIdle /\ StatsIdle /\ DashIdle

ScoreInit ==
  /\ \E n \in 1..MaxScoreLen :
       /\ fnQuestions \in [1..n -> [correct_answer : ScoreTexts]]
       /\ fnAnswers \in [1..n -> ScoreTexts]
  /\ fnScore = -1

ApplyCalculateScore ==
  /\ fnScore = -1
  /\ fnScore' = calculateScore(fnQuestions, fnAnswers)
  /\ UNCHANGED <<fnQuestions, fnAnswers, statVars, dashVars>>
  /\ UNCHANGED <<storeVars, takeVars, authVars>>

(***************************************************************************)
(* QuizResults.tsx calculateStats, applied to drawn responses.  A score is  *)
(* the integer column of a response row.  averageScore is held in tenths:  *)
(* 20 stands for the number 2.0.                                           *)
(***************************************************************************)
MaxResponses == 3
MaxStatScore == 3

RECURSIVE SumOf(_)
SumOf(seq) == IF seq = <<>> THEN 0 ELSE Head(seq) + SumOf(Tail(seq))

\* Math.floor(num / den): the digit after the kept one is dropped
MathFloor(num, den) == num \div den

\* Math.round(num / den) for num >= 0, den > 0: the nearest integer, a half rounds up
MathRound(num, den) == (2 * num + den) \div (2 * den)

\* Math.round(averageScore * 10), the tenths of the returned averageScore
AverageTenths(total, count) == MathRound(10 * total, count)

\* a variant that takes the percentage from the averageScore as returned, already
\* rounded to tenths
AveragePercentageOfRounded(total, count, questionCount) ==
  IF questionCount = 0
  THEN IF total = 0 THEN "NaN" ELSE "Infinity"
  ELSE MathRound(100 * AverageTenths(total, count), 10 * questionCount)

\* Math.round((averageScore / questions.length) * 100); a division by zero gives
\* NaN for 0 / 0 and Infinity otherwise, which Math.round returns as they are
AveragePercentage(total, count, questionCount) ==
  IF questionCount = 0
  THEN IF total = 0 THEN "NaN" ELSE "Infinity"
  ELSE MathRound(100 * total, count * questionCount)

calculateStats(responses, questionCount) ==
  IF Len(responses) = 0
  THEN [averageScore |-> 0, totalResponses |-> 0, averagePercentage |-> 0]
  ELSE LET totalScore == SumOf(responses)
       IN  [averageScore |-> AverageTenths(totalScore, Len(responses)),
            totalResponses |-> Len(responses),
            averagePercentage |->
              AveragePercentage(totalScore, Len(responses), questionCount)]

StatsInit ==
  /\ stScores \in SeqsUpTo(0..MaxStatScore, MaxResponses)
  /\ stQuestionCount \in 0..MaxQuestions
  /\ stResult = NoStats
  /\ resResponses = <<>>
  /\ csv = NoCsv

ApplyCalculateStats ==
  /\ stResult = NoStats
  /\ stResult' = calculateStats(stScores, stQuestionCount)
  /\ UNCHANGED <<stScores, stQuestionCount, resResponses, csv, scoreVars, dashVars>>
  /\ UNCHANGED <<storeVars, takeVars, authVars>>

(***************************************************************************)
(* QuizResults.tsx on a store that takers and the owner have written:      *)
(* takers insert response rows for the questions they loaded, the owner    *)
(* saves the quiz with other questions, the results page loads the quiz's  *)
(* current questions and all its responses.                                *)
(***************************************************************************)
\* the row TakeQuiz handleSubmit inserts for the loaded questions qs and the
\* complete answers ans
TakenRow(qs, ans) ==
  [quiz_id |-> QuizId,
   student_name |-> "Ann",
   student_email |-> "a@x",
   answers |-> ans,
   score |-> calculateScore(qs, ans),
   total_questions |-> Len(qs)]

\* a quiz created through CreateQuiz, with no response yet; its responses table
\* accepts the rows TakeQuiz sends
ResultsInit ==
  /\ dbQuiz = [exists |-> TRUE, is_active |-> TRUE]
  /\ \E d \in StoredDrafts : Len(d) >= 1 /\ dbQuestions = RowsOf(d, 1)
  /\ dbResponses = <<>>
  /\ dbNextId = Cardinality(dbQuestions) + 1
  /\ dbRegisterColumn = FALSE
  /\ ownerOps = 0
  /\ ownerPc = "idle"

\* a taker who loaded the stored questions answers all of them and submits
TakerSubmits ==
  /\ Len(dbResponses) < MaxResponses
  /\ dbQuestions # {}
  /\ LET qs == OrderByIndex(dbQuestions)
     IN  \E ans \in [DOMAIN qs -> SeqSet(StoredOptions)] :
           /\ \A i \in DOMAIN qs : ans[i] \in SeqSet(qs[i].options)
           /\ ResponseAccepted(TakenRow(qs, ans))
           /\ dbResponses' = Append(dbResponses, TakenRow(qs, ans))
  /\ UNCHANGED <<dbQuiz, dbQuestions, dbNextId, dbRegisterColumn, ownerOps, ownerPc>>
  /\ UNCHANGED <<takeVars, authVars, fnVars>>

\* EditQuiz handleSubmit runs to its end with the validated draft d: the question
\* rows are replaced, the responses stay
OwnerSavesEdit(d) ==
  /\ ownerOps < MaxOwnerOps
  /\ dbQuiz.exists
  /\ Len(d) >= 1
  /\ dbQuestions' = RowsOf(d, dbNextId)
  /\ dbNextId' = dbNextId + Len(d)
  /\ ownerOps' = ownerOps + 1
  /\ UNCHANGED <<dbQuiz, dbResponses, dbRegisterColumn, ownerPc>>
  /\ UNCHANGED <<takeVars, authVars, fnVars>>

RECURSIVE Reverse(_)
Reverse(seq) == IF seq = <<>> THEN <<>> ELSE Append(Reverse(Tail(seq)), Head(seq))

\* fetchData: setQuestions(questionsData), setResponses(responsesData), the
\* responses by submitted_at, latest first
FetchData ==
  /\ dbQuiz.exists
  /\ resResponses' = Reverse(dbResponses)
  /\ stScores' = [k \in DOMAIN dbResponses |-> Reverse(dbResponses)[k].score]
  /\ stQuestionCount' = Cardinality(VisibleQuestions("owner"))
  /\ stResult' = NoStats
  /\ csv' = NoCsv
  /\ <<stScores', stQuestionCount', resResponses'>> # <<stScores, stQuestionCount, resResponses>>
  /\ UNCHANGED <<scoreVars, dashVars>>
  /\ UNCHANGED <<storeVars, takeVars, authVars>>

FixedHeaders == <<"Student Name", "Email", "Score", "Percentage", "Submitted At">>

\* Math.round((response.score / response.total_questions) * 100)
ResponsePercentage(response) ==
  IF response.total_questions = 0
  THEN IF response.score = 0 THEN "NaN" ELSE "Infinity"
  ELSE MathRound(100 * response.score, response.total_questions)

\* exportToCSV: the cells of the header line and of each row, before they are
\* quoted and joined by commas
exportToCSV(responses, questionCount) ==
  IF Len(responses) = 0
  THEN [header |-> <<>>, rows |-> <<>>, alert |-> "No responses to export"]
  ELSE [header |-> FixedHeaders \o [i \in 1..questionCount |-> <<"Question", i>>],
        rows |-> [k \in DOMAIN responses |->
                    <<responses[k].student_name,
                      responses[k].student_email,
                      responses[k].score,
                      <<ResponsePercentage(responses[k]), "%">>,
                      "submitted_at">> \o responses[k].answers],
        alert |-> ""]

ApplyExportToCSV ==
  /\ csv = NoCsv
  /\ csv' = exportToCSV(resResponses, stQuestionCount)
  /\ UNCHANGED <<stScores, stQuestionCount, stResult, resResponses, scoreVars, dashVars>>
  /\ UNCHANGED <<storeVars, takeVars, authVars>>

ResultsStep ==
  \/ TakerSubmits
  \/ \E d \in StoredDrafts : OwnerSavesEdit(d)
  \/ FetchData
  \/ ApplyCalculateStats
  \/ ApplyExportToCSV

(***************************************************************************)
(* Dashboard.tsx: the owner's list of quizzes.  deleteQuiz and             *)
(* toggleQuizStatus await the store and then set the list from the quizzes *)
(* array of the render in which the button was clicked.  The response      *)
(* counts the page also loads play no part in the list and are left out.   *)
(***************************************************************************)
DashQuizIds == {"q1", "q2"}

\* the owner's quizzes by created_at, newest first
DashOrder == <<"q2", "q1">>

StoredQuiz(id) == dbQuizzes[id].exists

\* select('*').eq('created_by', user.id).order('created_at', { ascending: false })
OwnerQuizRows ==
  LET RowAt(i) == [id |-> DashOrder[i], is_active |-> dbQuizzes[DashOrder[i]].is_active]
      Exists(row) == StoredQuiz(row.id)
  IN  SelectSeq([i \in DOMAIN DashOrder |-> RowAt(i)], Exists)

DashInit ==
  /\ dbQuizzes \in [DashQuizIds -> { q \in [exists : BOOLEAN, is_active : BOOLEAN] :
                                       q.is_active => q.exists }]
  /\ quizzes = <<>>
  /\ dashLoading = TRUE
  /\ dashPending = {}
  /\ dashIssued = 0
  /\ dashFailed = FALSE

\* fetchQuizzes: the list is set from the rows read, or left empty on an error
FetchQuizzes ==
  /\ dashLoading
  /\ quizzes' \in {OwnerQuizRows, <<>>}
  /\ dashLoading' = FALSE
  /\ UNCHANGED <<dbQuizzes, dashPending, dashIssued, dashFailed>>
  /\ UNCHANGED <<storeVars, takeVars, authVars, scoreVars, statVars>>

\* a request sent from the render showing the list: it holds that render's list
DashRequest(op, row) ==
  [n |-> dashIssued + 1, op |-> op, id |-> row.id, is_active |-> row.is_active,
   quizzes |-> quizzes, stage |-> "sent"]

\* deleteQuiz up to its await, window.confirm answered with OK (Cancel changes nothing)
DeleteQuiz(i) ==
  /\ ~dashLoading
  /\ i \in DOMAIN quizzes
  /\ dashIssued < MaxDashRequests
  /\ dashPending' = dashPending \cup {DashRequest("delete", quizzes[i])}
  /\ dashIssued' = dashIssued + 1
  /\ UNCHANGED <<dbQuizzes, quizzes, dashLoading, dashFailed>>
  /\ UNCHANGED <<storeVars, takeVars, authVars, scoreVars, statVars>>

\* toggleQuizStatus up to its await
ToggleQuizStatus(i) ==
  /\ ~dashLoading
  /\ i \in DOMAIN quizzes
  /\ dashIssued < MaxDashRequests
  /\ dashPending' = dashPending \cup {DashRequest("toggle", quizzes[i])}
  /\ dashIssued' = dashIssued + 1
  /\ UNCHANGED <<dbQuizzes, quizzes, dashLoading, dashFailed>>
  /\ UNCHANGED <<storeVars, takeVars, authVars, scoreVars, statVars>>

\* the store executes delete().eq('id', quizId) or
\* update({ is_active: !quiz.is_active }).eq('id', quiz.id); no row matching is no error
DashStoreApplies(r) ==
  /\ r \in dashPending
  /\ r.stage = "sent"
  /\ dbQuizzes' =
       IF r.op = "delete"
       THEN [dbQuizzes EXCEPT ![r.id] = [exists |-> FALSE, is_active |-> FALSE]]
       ELSE IF StoredQuiz(r.id)
            THEN [dbQuizzes EXCEPT ![r.id].is_active = ~r.is_active]
            ELSE dbQuizzes
  /\ dashPending' = (dashPending \ {r}) \cup {[r EXCEPT !.stage = "done"]}
  /\ UNCHANGED <<quizzes, dashLoading, dashIssued, dashFailed>>
  /\ UNCHANGED <<storeVars, takeVars, authVars, scoreVars, statVars>>

\* quizzes.filter(quiz => quiz.id !== quizId)
DashFilter(list, id) ==
  LET Other(q) == q.id # id
  IN  SelectSeq(list, Other)

\* quizzes.map(q => q.id === quiz.id ? { ...q, is_active: !q.is_active } : q)
DashMap(list, id) ==
  [k \in DOMAIN list |->
     IF list[k].id = id THEN [list[k] EXCEPT !.is_active = ~list[k].is_active]
     ELSE list[k]]

\* the await returns without an error: setQuizzes from the array the call closed over
DashReplyArrives(r) ==
  /\ r \in dashPending
  /\ r.stage = "done"
  /\ quizzes' = IF r.op = "delete" THEN DashFilter(r.quizzes, r.id)
                ELSE DashMap(r.quizzes, r.id)
  /\ dashPending' = dashPending \ {r}
  /\ UNCHANGED <<dbQuizzes, dashLoading, dashIssued, dashFailed>>
  /\ UNCHANGED <<storeVars, takeVars, authVars, scoreVars, statVars>>

\* the request fails: the error is thrown and logged, the list is not set
DashRequestFails(r) ==
  /\ r \in dashPending
  /\ r.stage = "sent"
  /\ dashPending' = dashPending \ {r}
  /\ dashFailed' = TRUE
  /\ UNCHANGED <<dbQuizzes, quizzes, dashLoading, dashIssued>>
  /\ UNCHANGED <<storeVars, takeVars, authVars, scoreVars, statVars>>

DashStep ==
  \/ FetchQuizzes
  \/ \E i \in 1..Len(DashOrder) : DeleteQuiz(i)
  \/ \E i \in 1..Len(DashOrder) : ToggleQuizStatus(i)
  \/ \E r \in dashPending : DashStoreApplies(r)
  \/ \E r \in dashPending : DashReplyArrives(r)
  \/ \E r \in dashPending : DashRequestFails(r)

(***************************************************************************)
(* Specifications.                                                         *)
(***************************************************************************)
\* the taking page as the user drives it: clicks reach enabled controls only
TakeSpecInit == StoreInit /\ TakeInit /\ AuthIdle /\ FnIdle
TakeNext == TakeStep(TRUE) \/ OwnerStep
SpecTake == TakeSpecInit /\ [][TakeNext]_vars

\* the taking page's handlers called on any rendered control, enabled or not
CallsNext == TakeStep(FALSE)
SpecTakeCalls == TakeSpecInit /\ [][CallsNext]_vars

\* the taking page opened through the link on a store nobody else writes, no
\* request failing for a reason outside the store's policies and constraints
LinkNext ==
  \/ FetchQuizRow
  \/ FetchQuestionRows
  \/ \E option \in SeqSet(StoredOptions) : SelectAnswer(option)
  \/ ClickNext(TRUE)
  \/ ClickPrevious(TRUE)
  \/ \E v \in StudentNames : EditStudentName(v)
  \/ \E v \in StudentEmails : EditStudentEmail(v)
  \/ ClickSubmit(TRUE)
  \/ SubmitSucceeds
  \/ SubmitFails
SpecLink == TakeSpecInit /\ [][LinkNext]_vars

\* one authoring page, create or edit, its handlers called with in-range indexes
AuthoringInit == (CreateInit \/ EditInit) /\ TakeIdle /\ FnIdle
SpecAuthoring == AuthoringInit /\ [][AuthStep]_vars

\* one authoring page with a typed draft: Submit is clicked, its requests return or
\* fail, and the inputs are used meanwhile
PersistInit == (CreateTypedInit \/ EditTypedInit) /\ TakeIdle /\ FnIdle
PersistNext == SaveStep \/ EditWhileSaving
SpecPersist == PersistInit /\ [][PersistNext]_vars

ScoreSpecInit == StoreIdle /\ TakeIdle /\ AuthIdle /\ ScoreInit /\ StatsIdle /\ DashIdle
SpecScore == ScoreSpecInit /\ [][ApplyCalculateScore]_vars

StatsSpecInit == StoreIdle /\ TakeIdle /\ AuthIdle /\ ScoreIdle /\ StatsInit /\ DashIdle
SpecStats == StatsSpecInit /\ [][ApplyCalculateStats]_vars

\* the results page of a quiz that is taken and edited
ResultsSpecInit == ResultsInit /\ TakeIdle /\ AuthIdle /\ FnIdle
SpecResults == ResultsSpecInit /\ [][ResultsStep]_vars

\* the dashboard with overlapping delete and toggle requests
DashSpecInit == StoreIdle /\ TakeIdle /\ AuthIdle /\ ScoreIdle /\ StatsIdle /\ DashInit
SpecDashboard == DashSpecInit /\ [][DashStep]_vars

Init == TakeSpecInit
Next == TakeNext
Spec == SpecTake

(***************************************************************************)
(* Properties of the quiz-taking page.                                     *)
(***************************************************************************)
\* a response row as handleSubmit built it: no answer is empty after trimming and the
\* trimmed name and email are non-empty
RowComplete(row) ==
  /\ \A i \in DOMAIN row.answers : Trim(row.answers[i]) # ""
  /\ row.student_name # ""
  /\ row.student_email # ""

\* the rows the session has sent: those in flight and those the store holds
SentRows == SeqSet(inflight) \cup SeqSet(dbResponses)

\* C1: the results view is shown only after a submit whose answers were all
\* non-empty and whose name and email were non-empty after trimming, and a submit
\* with an unanswered question sends no row: every row sent is complete, whichever
\* rendered control the handlers were called from.
C1_ResultsOnlyAfterCompleteSubmit ==
  /\ \A row \in SentRows : RowComplete(row)
  /\ showResults => RowComplete(resultRow)

\* C1: a submit with an unanswered question was refused, and a later complete
\* submit of a two-question quiz opened the results view
C1_Witness ==
  /\ showResults
  /\ alertMsg = "Please answer all questions before submitting"
  /\ Len(answers) >= 2
  /\ dbResponses # <<>>

\* C2: every row a complete submit sends carries the six fields, with
\* total_questions = N, and every column the responses table declares NOT NULL
\* without a default, so that the table as declared accepts it.
C2_FullSubmitRowAccepted ==
  \A i \in DOMAIN inflight :
    /\ {"quiz_id", "student_name", "student_email", "answers", "score",
        "total_questions"} \subseteq DOMAIN inflight[i]
    /\ inflight[i].total_questions = Len(questions)
    /\ DeclaredResponseColumns \subseteq DOMAIN inflight[i]

\* C3: the score is the number of positions whose answer is exactly the question's
\* correct answer (case and white space count); correct answers [A, B] with
\* answers [A, C] score 1.
C3_ScoreCountsExactMatches ==
  /\ fnScore # -1 =>
       fnScore = Cardinality({ i \in DOMAIN fnQuestions :
                                 fnAnswers[i] = fnQuestions[i].correct_answer })
  /\ calculateScore(<<[correct_answer |-> "A"], [correct_answer |-> "B"]>>,
                    <<"A", "C">>) = 1

\* C3: the example of the claim has been scored
C3_Witness ==
  /\ fnQuestions = <<[correct_answer |-> "A"], [correct_answer |-> "B"]>>
  /\ fnAnswers = <<"A", "C">>
  /\ fnScore = 1

\* C4: every row sent has as many answers as total_questions says and a score
\* within 0..total_questions, also when the owner changes the quiz meanwhile.
C4_RowCountsConsistent ==
  \A row \in SentRows :
    /\ Len(row.answers) = row.total_questions
    /\ 0 <= row.score
    /\ row.score <= row.total_questions

\* C4: the owner removed one of two stored questions while the page was loading,
\* and the session's row was stored
C4_Witness ==
  /\ ownerOps >= 1
  /\ dbNextId = 3
  /\ Cardinality(dbQuestions) = 1
  /\ dbResponses # <<>>
  /\ Head(dbResponses).total_questions = 1
  /\ Head(dbResponses).score = 1

(***************************************************************************)
(* Properties of the authoring pages.  A handler's effect is read off its  *)
(* operator applied to the rendered draft of every reachable state.        *)
(***************************************************************************)
Authoring == page \in {"create", "edit"}

\* the draft a handler's result renders
After(res) == View(res.heap, res.opts, res.questions)

CorrectAmongOptions(q) ==
  q.correct_answer = "" \/ q.correct_answer \in SeqSet(q.options)

\* C5: in the create flow every question's correct answer is empty or one of the
\* question's current options.
C5_CreateCorrectAnswerAmongOptions ==
  page = "create" => \A i \in DOMAIN Draft : CorrectAmongOptions(Draft[i])

\* C6: in the edit flow, from a loaded draft whose correct answers are among the
\* options, every question's correct answer is empty or one of its current options.
C6_EditCorrectAnswerAmongOptions ==
  page = "edit" => \A i \in DOMAIN Draft : CorrectAmongOptions(Draft[i])

RemoveOptionOfPage(questionIndex, optionIndex) ==
  IF page = "create" THEN CreateQuiz_removeOption(questionIndex, optionIndex)
  ELSE EditQuiz_removeOption(questionIndex, optionIndex)

\* C7: removeOption on a question with more than 2 options removes exactly the
\* option at optionIndex, the others keeping their order, and empties the correct
\* answer when it was the removed option's text; in the create and the edit flow.
C7_RemoveOptionRemovesAndClears ==
  Authoring =>
    \A qi \in QuestionIndexes : \A oi \in OptionIndexes(qi) :
      Len(OptionsAt(qi)) > 2 =>
        LET before == Draft[qi + 1]
            after == After(RemoveOptionOfPage(qi, oi))[qi + 1]
        IN  /\ after.options = RemoveAt(before.options, oi)
            /\ before.correct_answer = before.options[oi + 1] => after.correct_answer = ""

\* C8: every question has 2 to 5 options; removeOption on a question with 2
\* options and addOption on a question with 5 options change nothing.
C8_OptionCountWithinBounds ==
  Authoring =>
    \A qi \in QuestionIndexes :
      /\ Len(OptionsAt(qi)) >= 2
      /\ Len(OptionsAt(qi)) <= 5
      /\ Len(OptionsAt(qi)) = 2 =>
           \A oi \in OptionIndexes(qi) : After(RemoveOptionOfPage(qi, oi)) = Draft
      /\ Len(OptionsAt(qi)) = 5 =>
           After(IF page = "create" THEN CreateQuiz_addOption(qi)
                 ELSE EditQuiz_addOption(qi)) = Draft

\* C8: addOption was called on a loaded question with 5 options, which it still has
C8_Witness ==
  /\ page = "edit"
  /\ aSteps = 1
  /\ aLast.op = "addOption"
  /\ Len(OptionsAt(aLast.index)) = 5

\* C27: in the edit flow updateOption changes one option's text and leaves the
\* choice of the correct option alone: an empty correct answer stays empty, and a
\* correct answer other than the edited option's text is unchanged.
C27_UpdateOptionKeepsCorrectChoice ==
  [][\A qi \in QuestionSlots, oi \in OptionSlots, v \in OptionTexts :
       page = "edit" /\ UpdateOption(qi, oi, v) =>
         LET before == Draft[qi + 1]
             after == Draft'[qi + 1]
         IN  /\ after.options = [before.options EXCEPT ![oi + 1] = v]
             /\ before.correct_answer = "" => after.correct_answer = ""
             /\ before.correct_answer # before.options[oi + 1] =>
                  after.correct_answer = before.correct_answer]_vars

\* a question without its order_index
Content(q) ==
  [question_text |-> q.question_text, options |-> q.options,
   correct_answer |-> q.correct_answer, id |-> q.id]

\* C9: the question at position i of a draft has order_index i, and moveQuestion
\* swaps the question at index with its neighbour, or changes nothing at a
\* boundary, adding, dropping and altering no question.
C9_OrderIndexMatchesPosition ==
  Authoring =>
    /\ \A i \in DOMAIN Draft : Draft[i].order_index = i - 1
    /\ \A index \in QuestionIndexes, direction \in {"up", "down"} :
         LET newIndex == IF direction = "up" THEN index - 1 ELSE index + 1
             after == After(IF page = "create" THEN CreateQuiz_moveQuestion(index, direction)
                            ELSE EditQuiz_moveQuestion(index, direction))
         IN  IF newIndex < 0 \/ newIndex >= Len(Draft) THEN after = Draft
             ELSE /\ Len(after) = Len(Draft)
                  /\ \A i \in DOMAIN Draft :
                       Content(after[i]) =
                         Content(Draft[IF i = index + 1 THEN newIndex + 1
                                       ELSE IF i = newIndex + 1 THEN index + 1 ELSE i])

\* C10: a draft has at least one question, and removeQuestion on a draft of one
\* question changes nothing.
C10_DraftNeverEmpty ==
  Authoring =>
    /\ Len(Draft) >= 1
    /\ Len(Draft) = 1 =>
         After(IF page = "create" THEN CreateQuiz_removeQuestion(0)
               ELSE EditQuiz_removeQuestion(0)) = Draft

RECURSIVE WithoutId(_, _)
\* the draft d without the question that carries id
WithoutId(d, id) ==
  IF d = <<>> THEN <<>>
  ELSE IF Head(d).id = id THEN WithoutId(Tail(d), id)
  ELSE <<Head(d)>> \o WithoutId(Tail(d), id)

\* a removeQuestion that awaited its delete request completes
PendingRemoveCompletes == Len(aPending') < Len(aPending) /\ aLast'.op = "removeQuestion"

\* C24: when a removeQuestion that was waiting for the store completes, the draft
\* is the draft on screen without the removed question: what other operations
\* did to the draft meanwhile is kept, as if the operations had run one after
\* another in trigger order
C24_PendingRemoveKeepsEdits ==
  [][PendingRemoveCompletes =>
       \E k \in DOMAIN aPending :
         /\ aLast'.index = aPending[k].index
         /\ LET kept == WithoutId(Draft, aPending[k].id)
            IN  /\ Len(Draft') = Len(kept)
                /\ \A i \in DOMAIN kept : Content(Draft'[i]) = Content(kept[i])]_vars

\* C25: the authoring operations change the draft only: no step of an authoring
\* page that is not a save changes the quiz row or a question row of the store
C25_AuthoringLeavesStore ==
  [][saves' = saves /\ ~Saving => dbQuiz' = dbQuiz /\ dbQuestions' = dbQuestions]_vars

(***************************************************************************)
(* Properties of validating and saving a draft.                            *)
(***************************************************************************)
\* the rules a question can violate, in the order of the checks
Rules == <<"text", "options", "correct", "member">>

Violations(q) ==
  (IF Trim(q.question_text) = "" THEN {"text"} ELSE {})
    \cup (IF \E o \in DOMAIN q.options : Trim(q.options[o]) = "" THEN {"options"} ELSE {})
    \cup (IF Trim(q.correct_answer) = "" THEN {"correct"} ELSE {})
    \cup (IF \A o \in DOMAIN q.options : q.options[o] # q.correct_answer
          THEN {"member"} ELSE {})

FirstRuleIn(violated) ==
  Rules[CHOOSE k \in DOMAIN Rules :
          Rules[k] \in violated /\ \A j \in 1..(k - 1) : Rules[j] \notin violated]

\* the failure of the first question that violates a rule, by that question's
\* first violated rule
FirstFailingQuestion(t, d) ==
  IF Trim(t) = "" THEN [rule |-> "title", question |-> 0]
  ELSE IF \A i \in DOMAIN d : Violations(d[i]) = {} THEN NoFailure
  ELSE LET i == CHOOSE n \in DOMAIN d :
                  Violations(d[n]) # {} /\ \A m \in 1..(n - 1) : Violations(d[m]) = {}
       IN  [rule |-> FirstRuleIn(Violations(d[i])), question |-> i]

\* the earliest rule, in the order title, text, options, correct, member, that
\* any question violates
EarliestRule(t, d) ==
  IF Trim(t) = "" THEN "title"
  ELSE IF \A i \in DOMAIN d : Violations(d[i]) = {} THEN "none"
  ELSE FirstRuleIn(UNION { Violations(d[i]) : i \in DOMAIN d })

\* handleSubmit is called on a draft that validateForm rejects
RejectedSubmit == saves' # saves /\ validateForm # NoFailure

\* C11 as amended: validateForm fails exactly when the title is blank or some
\* question violates a rule (blank meaning empty after trimming, membership being
\* exact); it reports one failure: the blank title, else the first violated rule of
\* the first question that violates one; a rejected submit issues no request and
\* leaves the store as it was
C11_ValidateReportsFirstFailingQuestion ==
  /\ [](Authoring => validateForm = FirstFailingQuestion(title, Draft))
  /\ [][RejectedSubmit =>
          /\ UNCHANGED storeVars
          /\ savePc' = "idle" /\ saveLog' = <<>>
          /\ aLast'.op = "handleSubmit"
          /\ aLast'.value = validateForm.rule
          /\ aLast'.index = validateForm.question]_vars

\* C11 as stated: the failure validateForm reports is for the earliest violated
\* rule in the order (a) title, (b) question text, (c) options, (d) correct answer
\* non-empty, (e) correct answer among the options
C11_ValidateReportsEarliestRule ==
  aLast.op = "handleSubmit" /\ aLast.value # "failed" =>
    aLast.value = EarliestRule(title, Draft)

\* Submit was clicked on a draft whose first question has a blank option and
\* whose second question has no text: the alert is about the options of question 1
C11_Witness ==
  /\ aLast = Called("handleSubmit", 1, -1, "options")
  /\ Len(Draft) = 2
  /\ Trim(Draft[2].question_text) = ""
  /\ saveLog = <<>>
  /\ saves = 1

\* a question row as sent: text, options and correct answer are trimmed
RowValid(row) ==
  /\ row.question_text # ""
  /\ Len(row.options) >= MinOptions
  /\ Len(row.options) <= MaxOptions
  /\ \A o \in DOMAIN row.options : row.options[o] # ""
  /\ row.correct_answer # ""
  /\ \E o \in DOMAIN row.options : row.options[o] = row.correct_answer

\* the question rows handleSubmit has sent
SentQuestionRows ==
  UNION { SeqSet(saveLog[k].rows) : k \in DOMAIN saveLog }

\* C12: every quiz row handleSubmit sends has a non-empty trimmed title, and every
\* question row it sends has a non-empty text, 2 to 5 non-empty options and a
\* non-empty correct answer that is one of the options, all after trimming
C12_SentRowsStructurallyValid ==
  /\ \A k \in DOMAIN saveLog :
        saveLog[k].op \in {"insertQuiz", "updateQuiz"} => saveLog[k].title # ""
  /\ \A row \in SentQuestionRows : RowValid(row)

\* C13: every stored question row has a correct answer equal to exactly one of
\* its options
C13_CorrectAnswerMatchesOneOption ==
  \A row \in dbQuestions :
    Cardinality({ o \in DOMAIN row.options : row.options[o] = row.correct_answer }) = 1

\* a row or a draft question as the text, options and correct answer it carries
Trimmed(q) ==
  [question_text |-> Trim(q.question_text),
   options |-> [o \in DOMAIN q.options |-> Trim(q.options[o])],
   correct_answer |-> Trim(q.correct_answer)]

\* handleSubmit of EditQuiz has run to its end
UpdateDone == savePc = "done" /\ saveLog[1].op = "updateQuiz"

C15_SaveIsAllOrNothing ==
  /\ dbQuiz.exists => dbQuestions # {}
  /\ aLast = Called("handleSubmit", 0, -1, "failed") /\ saves = 1 =>
        IF saveLog[1].op = "insertQuiz" THEN ~dbQuiz.exists
        ELSE dbNextId = Cardinality(dbQuestions) + 1

(***************************************************************************)
(* Properties of loading and navigating.                                   *)
(***************************************************************************)
\* the page shows the quiz: the question view or the results view
Entered == TakeView \in {"taking", "results"}

\* C18: while the page shows the quiz, 0 <= currentQuestion <= N - 1; the question
\* on screen changes by one step only: forward when its answer is non-empty and it
\* is not the last one, or backward when it is not the first one; a step leaves
\* the answers as they are
C18_CurrentQuestionInRange ==
  /\ [](Entered => currentQuestion >= 0 /\ currentQuestion <= Len(questions) - 1)
  /\ [][currentQuestion' # currentQuestion =>
          /\ answers' = answers
          /\ \/ /\ currentQuestion' = currentQuestion + 1
                /\ ~Falsy(answers[currentQuestion + 1])
                /\ currentQuestion' <= Len(questions) - 1
             \/ /\ currentQuestion' = currentQuestion - 1
                /\ currentQuestion' >= 0]_vars

\* the student answered both questions and went back to the first one
C18_Witness ==
  /\ TakeView = "taking"
  /\ Len(questions) = 2
  /\ currentQuestion = 0
  /\ ~Falsy(answers[1])
  /\ ~Falsy(answers[2])

\* C19: when the quiz row could not be loaded, the question fetch failed or the
\* quiz has no questions, the page redirects: no answer has been or can be
\* selected and no response has been or can be submitted
C19_LoadFailureRedirects ==
  /\ [](fetchPc = "done" /\ (quiz = Null \/ Len(questions) = 0) =>
          /\ TakeView = "redirect"
          /\ \A i \in DOMAIN answers : answers[i] = ""
          /\ inflight = <<>>
          /\ dbResponses = <<>>
          /\ ~showResults /\ ~submitted)
  /\ [][TakeView = "redirect" =>
          /\ answers' = answers
          /\ currentQuestion' = currentQuestion
          /\ inflight' = <<>>
          /\ dbResponses' = <<>>
          /\ TakeView' = "redirect"]_vars

\* the quiz row was read but no question row came back
C19_Witness ==
  /\ fetchPc = "done"
  /\ quiz # Null
  /\ Len(questions) = 0
  /\ TakeView = "redirect"

\* the link is of an active quiz that has at least one question
LinkOfActiveQuiz == dbQuiz.exists /\ dbQuiz.is_active /\ dbQuestions # {}

\* C23: whoever opens the link of an active quiz with at least one question,
\* unauthenticated or signed in as another user than the owner, is allowed to read
\* the quiz and its questions, gets the question view once the page has loaded,
\* and every response the page sends is accepted by the store
C23_LinkIsOnlyAccessControl ==
  LinkOfActiveQuiz =>
    /\ fetchPc = "done" =>
          /\ CanReadQuiz(caller)
          /\ VisibleQuestions(caller) = dbQuestions
          /\ Entered
          /\ questions = OrderByIndex(dbQuestions)
    /\ \A i \in DOMAIN inflight : ResponseAccepted(inflight[i])

\* C26: while the questions are shown, every question before the one on screen
\* has an answer that is non-empty and one of its options; so when the Submit
\* button is enabled no answer is empty after trimming and handleSubmit's checks
\* do not reject
C26_EarlierQuestionsAnswered ==
  TakeView = "taking" =>
    /\ \A i \in 1..currentQuestion :
          /\ answers[i] # ""
          /\ answers[i] \in SeqSet(questions[i].options)
    /\ SubmitRendered /\ ~SubmitDisabled =>
          ~MissingStudentInfo /\ ~SomeUnanswered(answers)

\* on the last of two questions with the Submit button enabled
C26_Witness ==
  /\ TakeView = "taking"
  /\ Len(questions) = 2
  /\ currentQuestion = 1
  /\ SubmitRendered
  /\ ~SubmitDisabled
  /\ inflight = <<>>

(***************************************************************************)
(* Properties of submitting a response.                                    *)
(***************************************************************************)
\* a response insert of this session returns
InsertReturns == inflight # <<>> /\ inflight' = Tail(inflight)
\* ... with the row stored
InsertStored == InsertReturns /\ Len(dbResponses') = Len(dbResponses) + 1
\* ... with an error
InsertFailed == InsertReturns /\ Len(dbResponses') = Len(dbResponses)

FailureAlert == "Failed to submit quiz. Please try again."

\* C16: while a response insert is in flight the Submit button is disabled, so at
\* most one insert is in flight; the results view is entered by exactly one stored
\* insert and no row is inserted after it; when an insert fails the button is no
\* longer disabled on account of the request
C16_SingleSubmitInFlight ==
  /\ [](/\ Len(inflight) <= 1
        /\ inflight # <<>> => submitting /\ TakeView = "taking"
        /\ TakeView = "taking" /\ submitting => SubmitDisabled
        /\ showResults => inflight = <<>> /\ Len(dbResponses) <= 1)
  /\ [][/\ InsertStored => ~showResults /\ showResults'
        /\ ~showResults /\ showResults' => InsertStored
        /\ Len(dbResponses') > Len(dbResponses) => InsertStored
        /\ InsertFailed =>
              /\ ~submitting'
              /\ ~MissingStudentInfo' /\ ~Falsy(answers'[currentQuestion' + 1])
                   => ~SubmitDisabled']_vars

\* a first insert failed, the student submitted again and the second insert opened
\* the results view
C16_Witness ==
  /\ alertMsg = FailureAlert
  /\ showResults
  /\ Len(dbResponses) = 1
  /\ inflight = <<>>

\* C17: when the response insert fails the page stays in the taking view with the
\* question on screen, the answers, the name and the email as they were, the
\* results view is not entered, submitting is false and no request is issued in
\* its place
C17_FailedSubmitKeepsSession ==
  [][InsertFailed =>
       /\ TakeView = "taking" /\ TakeView' = "taking"
       /\ currentQuestion' = currentQuestion
       /\ answers' = answers
       /\ studentName' = studentName
       /\ studentEmail' = studentEmail
       /\ ~showResults' /\ ~submitted'
       /\ ~submitting'
       /\ inflight' = <<>>
       /\ alertMsg' = FailureAlert]_vars

\* after a failed insert the student has clicked Submit again: the same answers,
\* name and email are in flight a second time
C17_Witness ==
  /\ alertMsg = FailureAlert
  /\ Len(inflight) = 1
  /\ ~showResults
  /\ dbResponses = <<>>
  /\ inflight[1].answers = answers
  /\ inflight[1].student_name = Trim(studentName)

(***************************************************************************)
(* Properties of the results page.                                         *)
(***************************************************************************)
\* C20: calculateStats returns zeros for no responses; otherwise totalResponses is
\* the number of responses and averageScore is the tenth nearest to the mean of
\* the scores (a tie goes up); the scores 3, 1, 2 give 2.0
C20_StatsCountAndRoundedMean ==
  stResult # NoStats =>
    LET n == Len(stScores)
        total == SumOf(stScores)
        tenths == stResult.averageScore
    IN  /\ n = 0 =>
              stResult = [averageScore |-> 0, totalResponses |-> 0,
                          averagePercentage |-> 0]
        /\ n > 0 =>
              /\ stResult.totalResponses = n
              /\ 2 * (tenths * n - 10 * total) > -n
              /\ 2 * (tenths * n - 10 * total) <= n
        /\ stScores = <<3, 1, 2>> => tenths = 20

\* the mean of 2, 2, 1 is 1.666..., returned as 1.7
C20_Witness ==
  /\ stScores = <<2, 2, 1>>
  /\ stResult # NoStats
  /\ stResult.averageScore = 17
  /\ stResult.totalResponses = 3
\* calculateStats has run on at least one response of a quiz with questions
StatsOfResponses == stResult # NoStats /\ Len(stScores) > 0 /\ stQuestionCount >= 1

Exported == csv # NoCsv /\ csv.alert = ""

\* C22: the exported header has the 5 fixed columns followed by Question 1 to
\* Question N, N the current number of questions; there is one row per loaded
\* response, in their order, and every row has 5 + N cells, one answer cell per
\* question column
C22_CsvRowsMatchHeader ==
  Exported =>
    /\ Len(csv.header) = 5 + stQuestionCount
    /\ \A i \in 1..5 : csv.header[i] = FixedHeaders[i]
    /\ \A i \in 1..stQuestionCount : csv.header[5 + i] = <<"Question", i>>
    /\ Len(csv.rows) = Len(resResponses)
    /\ \A k \in DOMAIN csv.rows :
          /\ csv.rows[k][1] = resResponses[k].student_name
          /\ csv.rows[k][3] = resResponses[k].score
          /\ Len(csv.rows[k]) = Len(csv.header)

\* C28: for a quiz with at least one response, the averagePercentage shown is an
\* integer from 0 to 100, and so is every response's own percentage
C28_PercentagesWithinHundred ==
  /\ stResult # NoStats /\ Len(resResponses) > 0 =>
        /\ stResult.averagePercentage \in Int
        /\ stResult.averagePercentage >= 0
        /\ stResult.averagePercentage <= 100
  /\ \A k \in DOMAIN resResponses :
        /\ ResponsePercentage(resResponses[k]) \in Int
        /\ ResponsePercentage(resResponses[k]) >= 0
        /\ ResponsePercentage(resResponses[k]) <= 100

\* C29: no response row is inserted for a quiz that is inactive or deleted at the
\* time of the insert, also when the owner deactivates or deletes the quiz after
\* the taker has loaded it.
C29_NoResponseForInactiveQuiz ==
  [][Len(dbResponses') > Len(dbResponses) => dbQuiz.exists /\ dbQuiz.is_active]_vars

(***************************************************************************)
(* Properties of the dashboard.                                            *)
(***************************************************************************)
\* every delete and toggle request issued has been answered without an error
DashSettled ==
  /\ ~dashLoading
  /\ dashIssued > 0
  /\ dashPending = {}
  /\ ~dashFailed

\* C30: once every pending deleteQuiz and toggleQuizStatus request has completed
\* successfully, the dashboard's list holds no deleted quiz and shows every quiz's
\* is_active as stored, whatever the interleaving of the overlapping requests.
C30_ListAgreesWithStore ==
  DashSettled =>
    \A k \in DOMAIN quizzes :
      /\ StoredQuiz(quizzes[k].id)
      /\ quizzes[k].is_active = dbQuizzes[quizzes[k].id].is_active

====
